---- MODULE Spec2Model ----
(***************************************************************************)
(* Model of pkg/exporter/exporter.go of memcached_exporter: the collection *)
(* cycle (Collect, CollectServer), the two translation passes (parseStats, *)
(* parseStatsSettings), the field-to-metric binder and the scalar parsers. *)
(*                                                                         *)
(* Raw values are sequences of one-character strings, so that parsing is   *)
(* computed and not assumed.  float64 values are kept exactly, as integers *)
(* in units of one millionth (Micro): 1.0 is Micro.                        *)
(***************************************************************************)
EXTENDS Integers, Sequences, FiniteSets, TLC

VARIABLES
    family,        \* which family of server replies the environment draws from
    addresses,     \* Exporter.addresses
    described,     \* what Describe has sent on its channel
    mainpc,        \* position of the goroutine running Describe and Collect
    i,             \* index of the range loop of Collect
    address,       \* loop variable of the range loop of Collect
    wg,            \* counter of the sync.WaitGroup of Collect
    ch,            \* everything sent on the channel handed to Collect
    late,          \* sends that happened after Collect had returned
    wpc,           \* position of each worker goroutine
    server,        \* the argument each worker goroutine was started with
    conn,          \* what the memcache client did for each worker
    faults,        \* how the reply of each server deviates from the base reply
    stats,         \* CollectServer's local stats
    statsSettings, \* CollectServer's local statsSettings
    up,            \* CollectServer's local up
    perr,          \* the errors returned by the two translation passes
    calls,         \* every call of the binder made by each worker
    nsent          \* number of sending steps each worker has made

vars == <<family, addresses, described, mainpc, i, address, wg, ch, late, wpc,
          server, conn, faults, stats, statsSettings, up, perr, calls, nsent>>

(***************************************************************************)
(* Bounds of the model.                                                    *)
(***************************************************************************)
NumServers == 2     \* configured addresses in the concurrent specification
MaxFaults == 2      \* deviations of one server's reply, translation family
MaxLen == 3         \* characters of the raw values enumerated for the parsers

(***************************************************************************)
(* Program constants.                                                      *)
(***************************************************************************)
Micro == 1000000

nil == "nil"
errKeyNotFound == "key not found"
errParseFloat == "strconv.ParseFloat: invalid syntax"
errParseBool == "failed parse a bool value"
errParseTimeval == "failed parse a timeval value"

CounterValue == "CounterValue"
GaugeValue == "GaugeValue"

(***************************************************************************)
(* Strings.                                                                *)
(***************************************************************************)
DigitVal ==
    ("0" :> 0) @@ ("1" :> 1) @@ ("2" :> 2) @@ ("3" :> 3) @@ ("4" :> 4) @@
    ("5" :> 5) @@ ("6" :> 6) @@ ("7" :> 7) @@ ("8" :> 8) @@ ("9" :> 9)

DigitStr == <<"0", "1", "2", "3", "4", "5", "6", "7", "8", "9">>

RECURSIVE Str(_)
\* the Go string made of the characters of s
Str(s) == IF s = <<>> THEN "" ELSE s[1] \o Str(Tail(s))

RECURSIVE Itoa(_)
\* strconv.Itoa, for n >= 0
Itoa(n) == IF n < 10 THEN DigitStr[n + 1]
           ELSE Itoa(n \div 10) \o DigitStr[(n % 10) + 1]

RECURSIVE Split(_, _)
\* strings.Split(s, sep) for a one-character sep
Split(s, sep) ==
    IF \A k \in 1..Len(s) : s[k] # sep THEN <<s>>
    ELSE LET k == CHOOSE k \in 1..Len(s) :
                      s[k] = sep /\ \A j \in 1..(k - 1) : s[j] # sep
         IN  <<SubSeq(s, 1, k - 1)>> \o Split(SubSeq(s, k + 1, Len(s)), sep)

IsDigits(s) == \A k \in 1..Len(s) : s[k] \in DOMAIN DigitVal

RECURSIVE DecVal(_)
DecVal(s) == IF s = <<>> THEN 0
             ELSE DecVal(SubSeq(s, 1, Len(s) - 1)) * 10 + DigitVal[s[Len(s)]]

RECURSIVE Pow10(_)
Pow10(n) == IF n = 0 THEN 1 ELSE 10 * Pow10(n - 1)

\* strconv.ParseFloat(s, 64) on unsigned decimal literals "ddd", "ddd.ddd",
\* "ddd." and ".ddd" with at most six fractional digits; every other string
\* over digits, '.' and the letters the replies use is a syntax error.
\* p is s split at its dots.
FloatOf(s, p) ==
    IF Len(p) = 1 /\ Len(s) > 0 /\ IsDigits(s)
    THEN [v |-> DecVal(s) * Micro, err |-> nil]
    ELSE IF /\ Len(p) = 2
            /\ IsDigits(p[1]) /\ IsDigits(p[2])
            /\ Len(p[1]) + Len(p[2]) > 0
            /\ Len(p[2]) <= 6
    THEN [v |-> DecVal(p[1]) * Micro + DecVal(p[2]) * Pow10(6 - Len(p[2])),
          err |-> nil]
    ELSE [v |-> 0, err |-> errParseFloat]

ParseFloat(s) == FloatOf(s, Split(s, "."))

(***************************************************************************)
(* Scalar parsers.                                                         *)
(***************************************************************************)
\* "v, err := strconv.ParseFloat(value, 64)" and what parse returns for it
parseResult(r) ==
    IF r.err # nil THEN [v |-> 0, err |-> r.err] ELSE [v |-> r.v, err |-> nil]

\* parse as it would be without the "if !ok" branch: a missing key reads as ""
parseWithoutOk(m, key) ==
    parseResult(ParseFloat(IF key \in DOMAIN m THEN m[key] ELSE <<>>))

parse(m, key) ==
    IF key \notin DOMAIN m THEN [v |-> 0, err |-> errKeyNotFound]
    ELSE parseResult(ParseFloat(m[key]))

\* parseBool as it would be if "default" took every other value for "no"
parseBoolDefaultNo(m, key) ==
    IF key \notin DOMAIN m THEN [v |-> 0, err |-> errKeyNotFound]
    ELSE IF m[key] = <<"y", "e", "s">> THEN [v |-> 1 * Micro, err |-> nil]
    ELSE [v |-> 0, err |-> nil]

parseBool(m, key) ==
    IF key \notin DOMAIN m THEN [v |-> 0, err |-> errKeyNotFound]
    ELSE IF m[key] = <<"y", "e", "s">> THEN [v |-> 1 * Micro, err |-> nil]
    ELSE IF m[key] = <<"n", "o">> THEN [v |-> 0, err |-> nil]
    ELSE [v |-> 0, err |-> errParseBool]

\* the end of parseTimeval as it would be without the division
timevalResultUndivided(seconds, microseconds) ==
    IF seconds.err # nil THEN [v |-> 0, err |-> errParseTimeval]
    ELSE IF microseconds.err # nil THEN [v |-> 0, err |-> errParseTimeval]
    ELSE [v |-> seconds.v + microseconds.v, err |-> nil]

\* the two ParseFloat results of parseTimeval and what it returns for them
timevalResult(seconds, microseconds) ==
    IF seconds.err # nil THEN [v |-> 0, err |-> errParseTimeval]
    ELSE IF microseconds.err # nil THEN [v |-> 0, err |-> errParseTimeval]
    ELSE [v |-> seconds.v + (microseconds.v \div Micro), err |-> nil]

\* values := strings.Split(value, ".") and the rest of parseTimeval
timevalOf(values) ==
    IF Len(values) # 2 THEN [v |-> 0, err |-> errParseTimeval]
    ELSE timevalResult(ParseFloat(values[1]), ParseFloat(values[2]))

parseTimeval(m, key) ==
    IF key \notin DOMAIN m THEN [v |-> 0, err |-> errKeyNotFound]
    ELSE timevalOf(Split(m[key], "."))

\* one turn of the loop of sum: s is the sum so far, r the ParseFloat result
sumAdd(s, r) ==
    IF r.err # nil THEN [v |-> 0, err |-> r.err]
    ELSE [v |-> s.v + r.v, err |-> nil]

\* s is what the loop of sum made of the keys before key
sumNext(m, key, s) ==
    IF s.err # nil THEN s
    ELSE IF key \notin DOMAIN m THEN [v |-> 0, err |-> errKeyNotFound]
    ELSE sumAdd(s, ParseFloat(m[key]))

RECURSIVE sum(_, _)
\* sum(stats, keys...): the keys are read from left to right
sum(m, keys) ==
    IF keys = <<>> THEN [v |-> 0, err |-> nil]
    ELSE sumNext(m, keys[Len(keys)], sum(m, SubSeq(keys, 1, Len(keys) - 1)))

\* "for _, v := range errors { if v != nil { return v } }; return nil": the
\* first of the errors that is not nil
firstError(errors) ==
    LET bad == {k \in DOMAIN errors : errors[k] # nil}
    IN  IF bad = {} THEN nil
        ELSE errors[CHOOSE k \in bad : \A j \in bad : k <= j]

(***************************************************************************)
(* The field-to-metric binder.  A call returns what it sent on the channel,*)
(* the error it returned, and a record of the call itself.                 *)
(***************************************************************************)
NewConstMetric(desc, valueType, value, labelValues) ==
    [desc |-> desc, valueType |-> valueType, value |-> value,
     labelValues |-> labelValues]

\* f(stats, key, e.logger) for the parser f handed to the binder
CallParser(f, m, key) ==
    CASE f = "parse" -> parse(m, key)
      [] f = "parseBool" -> parseBool(m, key)
      [] f = "parseTimeval" -> parseTimeval(m, key)

Call(desc, valueType, f, m, key, labelValues, sent, err) ==
    [desc |-> desc, valueType |-> valueType, f |-> f, key |-> key,
     labelValues |-> labelValues,
     present |-> key \in DOMAIN m,
     raw |-> IF key \in DOMAIN m THEN m[key] ELSE <<>>,
     sent |-> sent, err |-> err]

\* what the binder sends and returns: sent tells whether it sends
Bound(call, sent, err, v) ==
    [sent |-> IF sent
              THEN {NewConstMetric(call.desc, call.valueType, v, call.labelValues)}
              ELSE {},
     err |-> err,
     calls |-> {[call EXCEPT !.sent = sent, !.err = err]}]

\* the binder as it would be without the "err == errKeyNotFound" branch
afterParserKeyNotFoundIsError(call, r) ==
    IF r.err # nil THEN Bound(call, FALSE, r.err, 0)
    ELSE Bound(call, TRUE, nil, r.v)

\* the binder after "v, err := f(stats, key, e.logger)", r being (v, err)
afterParser(call, r) ==
    IF r.err = errKeyNotFound THEN Bound(call, FALSE, nil, 0)
    ELSE IF r.err # nil THEN Bound(call, FALSE, r.err, 0)
    ELSE Bound(call, TRUE, nil, r.v)

extractValueAndNewMetric(desc, valueType, f, m, key, labelValues) ==
    afterParser(Call(desc, valueType, f, m, key, labelValues, FALSE, nil),
                CallParser(f, m, key))

parseAndNewMetric(desc, valueType, m, key, labelValues) ==
    extractValueAndNewMetric(desc, valueType, "parse", m, key, labelValues)

parseBoolAndNewMetric(desc, valueType, m, key, labelValues) ==
    extractValueAndNewMetric(desc, valueType, "parseBool", m, key, labelValues)

parseTimevalAndNewMetric(desc, valueType, m, key, labelValues) ==
    extractValueAndNewMetric(desc, valueType, "parseTimeval", m, key, labelValues)

\* a statement that sends one metric and cannot fail
Send(metric) == [sent |-> {metric}, err |-> nil, calls |-> {}]

\* a statement that only fails
Fail(err) == [sent |-> {}, err |-> err, calls |-> {}]

\* a group as it would be if a failed binding kept the later ones from running
\* (err := b1; if err == nil { err = b2 } ...)
GroupShortCircuit(rs) ==
    LET bad == {k \in DOMAIN rs : rs[k].err # nil}
        upto == IF bad = {} THEN Len(rs) ELSE CHOOSE k \in bad : \A j \in bad : k <= j
    IN  [sent |-> UNION {rs[k].sent : k \in 1..upto},
         calls |-> UNION {rs[k].calls : k \in 1..upto},
         err |-> firstError([k \in DOMAIN rs |-> rs[k].err])]

\* err := firstError(b1, ..., bn): Go evaluates every argument, in order,
\* before firstError is called
Group(rs) ==
    [sent |-> UNION {rs[k].sent : k \in DOMAIN rs},
     calls |-> UNION {rs[k].calls : k \in DOMAIN rs},
     err |-> firstError([k \in DOMAIN rs |-> rs[k].err])]

\* parseError as it would be if every statement stored its err, nil or not
\* ("parseError = err" without the "if err != nil")
lastErrorOverwritten(rs) == IF rs = <<>> THEN nil ELSE rs[Len(rs)].err

\* parseError after the statements rs, each followed by
\* "if err != nil { parseError = err }": the error of the last one that failed
lastError(rs) ==
    IF \A k \in DOMAIN rs : rs[k].err = nil THEN nil
    ELSE rs[CHOOSE k \in DOMAIN rs :
                /\ rs[k].err # nil
                /\ \A j \in DOMAIN rs : j > k => rs[j].err = nil].err

\* the statements rs of a translation pass, run in order
StepAll(rs) ==
    [sent |-> UNION {rs[k].sent : k \in DOMAIN rs},
     calls |-> UNION {rs[k].calls : k \in DOMAIN rs},
     parseError |-> lastError(rs)]

RECURSIVE Flatten(_)
Flatten(ss) == IF ss = <<>> THEN <<>> ELSE Head(ss) \o Flatten(Tail(ss))

(***************************************************************************)
(* parseStats.                                                             *)
(***************************************************************************)
CommandOps == <<"get", "delete", "incr", "decr", "cas", "touch">>

\* itemsCounterMetrics: key and descriptor
itemsCounterMetrics ==
    << <<"crawler_reclaimed", "itemsCrawlerReclaimed">>,
       <<"evicted", "itemsEvicted">>,
       <<"evicted_nonzero", "itemsEvictedNonzero">>,
       <<"evicted_time", "itemsEvictedTime">>,
       <<"evicted_unfetched", "itemsEvictedUnfetched">>,
       <<"expired_unfetched", "itemsExpiredUnfetched">>,
       <<"outofmemory", "itemsOutofmemory">>,
       <<"reclaimed", "itemsReclaimed">>,
       <<"tailrepairs", "itemsTailrepairs">>,
       <<"mem_requested", "slabsMemRequested">>,
       <<"moves_to_cold", "itemsMovesToCold">>,
       <<"moves_to_warm", "itemsMovesToWarm">>,
       <<"moves_within_lru", "itemsMovesWithinLru">> >>

\* itemsGaugeMetrics: key and descriptor
itemsGaugeMetrics ==
    << <<"number_hot", "itemsHot">>,
       <<"number_warm", "itemsWarm">>,
       <<"number_cold", "itemsCold">>,
       <<"number_temp", "itemsTemporary">>,
       <<"age_hot", "itemsAgeOldestHot">>,
       <<"age_warm", "itemsAgeOldestWarm">> >>

\* s["version"]: a missing key reads as the empty string
MapGet(m, key) == IF key \in DOMAIN m THEN m[key] ELSE <<>>

\* One row per binder call of the source, in the order of the source:
\* binder, descriptor, value type, key, label values before the server.
uptimeCalls ==
    << <<"parseAndNewMetric", "uptime", CounterValue, "uptime", <<>> >>,
       <<"parseAndNewMetric", "time", GaugeValue, "time", <<>> >>,
       <<"parseAndNewMetric", "commands", CounterValue, "cas_badval", <<"cas", "badval">> >>,
       <<"parseAndNewMetric", "commands", CounterValue, "cmd_flush", <<"flush", "hit">> >> >>

extstoreCalls ==
    << <<"parseAndNewMetric", "extstoreCompactLost", CounterValue, "extstore_compact_lost", <<>> >>,
       <<"parseAndNewMetric", "extstoreCompactRescues", CounterValue, "extstore_compact_rescues", <<>> >>,
       <<"parseAndNewMetric", "extstoreCompactSkipped", CounterValue, "extstore_compact_skipped", <<>> >>,
       <<"parseAndNewMetric", "extstorePageAllocs", CounterValue, "extstore_page_allocs", <<>> >>,
       <<"parseAndNewMetric", "extstorePageEvictions", CounterValue, "extstore_page_evictions", <<>> >>,
       <<"parseAndNewMetric", "extstorePageReclaims", CounterValue, "extstore_page_reclaims", <<>> >>,
       <<"parseAndNewMetric", "extstorePagesFree", GaugeValue, "extstore_pages_free", <<>> >>,
       <<"parseAndNewMetric", "extstorePagesUsed", GaugeValue, "extstore_pages_used", <<>> >>,
       <<"parseAndNewMetric", "extstoreObjectsEvicted", CounterValue, "extstore_objects_evicted", <<>> >>,
       <<"parseAndNewMetric", "extstoreObjectsRead", CounterValue, "extstore_objects_read", <<>> >>,
       <<"parseAndNewMetric", "extstoreObjectsWritten", CounterValue, "extstore_objects_written", <<>> >>,
       <<"parseAndNewMetric", "extstoreObjectsUsed", GaugeValue, "extstore_objects_used", <<>> >>,
       <<"parseAndNewMetric", "extstoreBytesEvicted", CounterValue, "extstore_bytes_evicted", <<>> >>,
       <<"parseAndNewMetric", "extstoreBytesWritten", CounterValue, "extstore_bytes_written", <<>> >>,
       <<"parseAndNewMetric", "extstoreBytesRead", CounterValue, "extstore_bytes_read", <<>> >>,
       <<"parseAndNewMetric", "extstoreBytesUsed", CounterValue, "extstore_bytes_used", <<>> >>,
       <<"parseAndNewMetric", "extstoreBytesFragmented", GaugeValue, "extstore_bytes_fragmented", <<>> >>,
       <<"parseAndNewMetric", "extstoreBytesLimit", GaugeValue, "extstore_limit_maxbytes", <<>> >>,
       <<"parseAndNewMetric", "extstoreIOQueueDepth", GaugeValue, "extstore_io_queue", <<>> >> >>

rusageCalls ==
    << <<"parseTimevalAndNewMetric", "rusageUser", CounterValue, "rusage_user", <<>> >>,
       <<"parseTimevalAndNewMetric", "rusageSystem", CounterValue, "rusage_system", <<>> >>,
       <<"parseAndNewMetric", "currentBytes", GaugeValue, "bytes", <<>> >>,
       <<"parseAndNewMetric", "limitBytes", GaugeValue, "limit_maxbytes", <<>> >>,
       <<"parseAndNewMetric", "items", GaugeValue, "curr_items", <<>> >>,
       <<"parseAndNewMetric", "itemsTotal", CounterValue, "total_items", <<>> >>,
       <<"parseAndNewMetric", "bytesRead", CounterValue, "bytes_read", <<>> >>,
       <<"parseAndNewMetric", "bytesWritten", CounterValue, "bytes_written", <<>> >>,
       <<"parseAndNewMetric", "currentConnections", GaugeValue, "curr_connections", <<>> >>,
       <<"parseAndNewMetric", "connectionsTotal", CounterValue, "total_connections", <<>> >>,
       <<"parseAndNewMetric", "rejectedConnections", CounterValue, "rejected_connections", <<>> >>,
       <<"parseAndNewMetric", "connsYieldedTotal", CounterValue, "conn_yields", <<>> >>,
       <<"parseAndNewMetric", "listenerDisabledTotal", CounterValue, "listen_disabled_num", <<>> >>,
       <<"parseAndNewMetric", "evictions", CounterValue, "evictions", <<>> >>,
       <<"parseAndNewMetric", "reclaimed", CounterValue, "reclaimed", <<>> >>,
       <<"parseAndNewMetric", "lruCrawlerStarts", CounterValue, "lru_crawler_starts", <<>> >>,
       <<"parseAndNewMetric", "lruCrawlerItemsChecked", CounterValue, "crawler_items_checked", <<>> >>,
       <<"parseAndNewMetric", "lruCrawlerReclaimed", CounterValue, "crawler_reclaimed", <<>> >>,
       <<"parseAndNewMetric", "lruCrawlerMovesToCold", CounterValue, "moves_to_cold", <<>> >>,
       <<"parseAndNewMetric", "lruCrawlerMovesToWarm", CounterValue, "moves_to_warm", <<>> >>,
       <<"parseAndNewMetric", "lruCrawlerMovesWithinLru", CounterValue, "moves_within_lru", <<>> >>,
       <<"parseAndNewMetric", "malloced", GaugeValue, "total_malloced", <<>> >>,
       <<"parseAndNewMetric", "acceptingConnections", GaugeValue, "accepting_conns", <<>> >> >>

\* the slab label comes before these label values
itemsCalls ==
    << <<"parseAndNewMetric", "itemsNumber", GaugeValue, "number", <<>> >>,
       <<"parseAndNewMetric", "itemsAge", GaugeValue, "age", <<>> >>,
       <<"parseAndNewMetric", "itemsLruHits", CounterValue, "hits_to_hot", <<"hot">> >>,
       <<"parseAndNewMetric", "itemsLruHits", CounterValue, "hits_to_warm", <<"warm">> >>,
       <<"parseAndNewMetric", "itemsLruHits", CounterValue, "hits_to_cold", <<"cold">> >>,
       <<"parseAndNewMetric", "itemsLruHits", CounterValue, "hits_to_temp", <<"temporary">> >> >>

slabChunksCalls ==
    << <<"parseAndNewMetric", "slabsChunkSize", GaugeValue, "chunk_size", <<>> >>,
       <<"parseAndNewMetric", "slabsChunksPerPage", GaugeValue, "chunks_per_page", <<>> >>,
       <<"parseAndNewMetric", "slabsCurrentPages", GaugeValue, "total_pages", <<>> >>,
       <<"parseAndNewMetric", "slabsCurrentChunks", GaugeValue, "total_chunks", <<>> >>,
       <<"parseAndNewMetric", "slabsChunksUsed", GaugeValue, "used_chunks", <<>> >>,
       <<"parseAndNewMetric", "slabsChunksFree", GaugeValue, "free_chunks", <<>> >>,
       <<"parseAndNewMetric", "slabsChunksFreeEnd", GaugeValue, "free_chunks_end", <<>> >>,
       <<"parseAndNewMetric", "slabsMemRequested", GaugeValue, "mem_requested", <<>> >> >>

lruCrawlerCalls ==
    << <<"parseBoolAndNewMetric", "lruCrawlerEnabled", GaugeValue, "lru_crawler", <<>> >>,
       <<"parseAndNewMetric", "lruCrawlerSleep", GaugeValue, "lru_crawler_sleep", <<>> >>,
       <<"parseAndNewMetric", "lruCrawlerMaxItems", GaugeValue, "lru_crawler_tocrawl", <<>> >>,
       <<"parseBoolAndNewMetric", "lruMaintainerThread", GaugeValue, "lru_maintainer_thread", <<>> >>,
       <<"parseAndNewMetric", "lruHotPercent", GaugeValue, "hot_lru_pct", <<>> >>,
       <<"parseAndNewMetric", "lruWarmPercent", GaugeValue, "warm_lru_pct", <<>> >>,
       <<"parseAndNewMetric", "lruHotMaxAgeFactor", GaugeValue, "hot_max_factor", <<>> >>,
       <<"parseAndNewMetric", "lruWarmMaxAgeFactor", GaugeValue, "warm_max_factor", <<>> >> >>

\* the binder call of one row on the record m
BindCall(c, m, labelValues) ==
    CASE c[1] = "parseAndNewMetric" ->
             parseAndNewMetric(c[2], c[3], m, c[4], labelValues)
      [] c[1] = "parseBoolAndNewMetric" ->
             parseBoolAndNewMetric(c[2], c[3], m, c[4], labelValues)
      [] c[1] = "parseTimevalAndNewMetric" ->
             parseTimevalAndNewMetric(c[2], c[3], m, c[4], labelValues)

\* the binder calls as they would be if the slab label were left out
BindCallsWithoutSlab(cs, m, pre, srv) ==
    [k \in 1..Len(cs) |-> BindCall(cs[k], m, cs[k][5] \o <<srv>>)]

\* the binder calls cs on the record m, in order; pre is the slab label, if any
BindCalls(cs, m, pre, srv) ==
    [k \in 1..Len(cs) |-> BindCall(cs[k], m, pre \o cs[k][5] \o <<srv>>)]

versionStmt(s, srv) ==
    Send(NewConstMetric("version", GaugeValue, 1 * Micro,
                        <<Str(MapGet(s, "version")), srv>>))

\* the body of "for _, op := range []string{...}"
commandCalls(op) ==
    << <<"parseAndNewMetric", "commands", CounterValue, op \o "_hits", <<op, "hit">> >>,
       <<"parseAndNewMetric", "commands", CounterValue, op \o "_misses", <<op, "miss">> >> >>

commandStmt(s, srv, op) == Group(BindCalls(commandCalls(op), s, <<>>, srv))

uptimeStmt(s, srv) == Group(BindCalls(uptimeCalls, s, <<>>, srv))

\* memcached includes cas operations again in cmd_set
setCmdSend(setCmd, cas, srv) ==
    IF cas.err = nil
    THEN Send(NewConstMetric("commands", CounterValue, setCmd.v - cas.v,
                             <<"set", "hit", srv>>))
    ELSE Fail(cas.err)

\* the server-level derivation as it would be with the keys of the slab-level one
setCmdAfterParseSlabKeys(s, setCmd, srv) ==
    IF setCmd.err = nil
    THEN setCmdSend(setCmd, sum(s, <<"cas_hits", "cas_badval">>), srv)
    ELSE Fail(setCmd.err)

setCmdAfterParse(s, setCmd, srv) ==
    IF setCmd.err = nil
    THEN setCmdSend(setCmd, sum(s, <<"cas_misses", "cas_hits", "cas_badval">>), srv)
    ELSE Fail(setCmd.err)

setCmdStmt(s, srv) == setCmdAfterParse(s, parse(s, "cmd_set"), srv)

\* the extstore group as it would be without the check for
\* extstore_limit_maxbytes
extstoreStmtUnconditional(s, srv) ==
    <<Group(BindCalls(extstoreCalls, s, <<>>, srv))>>

extstoreStmt(s, srv) ==
    IF "extstore_limit_maxbytes" \in DOMAIN s
    THEN <<Group(BindCalls(extstoreCalls, s, <<>>, srv))>>
    ELSE <<>>

rusageStmt(s, srv) == Group(BindCalls(rusageCalls, s, <<>>, srv))

itemsStmt(u, slab, srv) == Group(BindCalls(itemsCalls, u, <<slab>>, srv))

\* "for m, d := range metrics": the keys missing from u are skipped before the
\* binder is called.  Every failure of this loop is a ParseFloat error, so
\* the order in which Go walks the map does not show in the result.
optionalStmts(metrics, valueType, u, slab, srv) ==
    LET there == SelectSeq(metrics, LAMBDA md : md[1] \in DOMAIN u)
    IN  [k \in 1..Len(there) |->
            parseAndNewMetric(there[k][2], valueType, u, there[k][1], <<slab, srv>>)]

\* the body of the loop over t.Items as it would be if the slab label kept
\* only the last digit of the slab class
itemsBodyLastDigit(u, n, srv) ==
    LET slab == Itoa(n % 10)
    IN  <<itemsStmt(u, slab, srv)>>
        \o optionalStmts(itemsCounterMetrics, CounterValue, u, slab, srv)
        \o optionalStmts(itemsGaugeMetrics, GaugeValue, u, slab, srv)

\* the body of "for slab, u := range t.Items"
itemsBody(u, n, srv) ==
    LET slab == Itoa(n)
    IN  <<itemsStmt(u, slab, srv)>>
        \o optionalStmts(itemsCounterMetrics, CounterValue, u, slab, srv)
        \o optionalStmts(itemsGaugeMetrics, GaugeValue, u, slab, srv)

\* the slab's "for _, op := range []string{...}" and its cas_badval
slabCommandCalls ==
    [k \in 1..Len(CommandOps) |->
        <<"parseAndNewMetric", "slabsCommands", CounterValue,
          CommandOps[k] \o "_hits", <<CommandOps[k], "hit">> >>]
    \o << <<"parseAndNewMetric", "slabsCommands", CounterValue, "cas_badval",
            <<"cas", "badval">> >> >>

slabSetCmdSend(slabSetCmd, slabCas, slab, srv) ==
    IF slabCas.err = nil
    THEN Send(NewConstMetric("slabsCommands", CounterValue,
                             slabSetCmd.v - slabCas.v, <<slab, "set", "hit", srv>>))
    ELSE Fail(slabCas.err)

\* the slab-level derivation as it would be with the keys of the server-level one
slabSetCmdAfterParseWithMisses(v, slabSetCmd, slab, srv) ==
    IF slabSetCmd.err = nil
    THEN slabSetCmdSend(slabSetCmd, sum(v, <<"cas_misses", "cas_hits", "cas_badval">>),
                        slab, srv)
    ELSE Fail(slabSetCmd.err)

slabSetCmdAfterParse(v, slabSetCmd, slab, srv) ==
    IF slabSetCmd.err = nil
    THEN slabSetCmdSend(slabSetCmd, sum(v, <<"cas_hits", "cas_badval">>), slab, srv)
    ELSE Fail(slabSetCmd.err)

slabSetCmdStmt(v, slab, srv) ==
    slabSetCmdAfterParse(v, parse(v, "cmd_set"), slab, srv)

slabChunksStmt(v, slab, srv) == Group(BindCalls(slabChunksCalls, v, <<slab>>, srv))

\* the body of "for slab, v := range t.Slabs"
slabsBody(v, n, srv) ==
    LET slab == Itoa(n)
    IN  BindCalls(slabCommandCalls, v, <<slab>>, srv)
        \o <<slabSetCmdStmt(v, slab, srv)>>
        \o <<slabChunksStmt(v, slab, srv)>>

\* the statements of the body of "for _, t := range stats" before the loops
\* over t.Items and t.Slabs
statsHead(s, srv) ==
    <<versionStmt(s, srv)>>
    \o [k \in 1..Len(CommandOps) |-> commandStmt(s, srv, CommandOps[k])]
    \o <<uptimeStmt(s, srv)>>
    \o <<setCmdStmt(s, srv)>>
    \o extstoreStmt(s, srv)
    \o <<rusageStmt(s, srv)>>

\* the orders in which Go may walk a map with the keys S
Perms(S) ==
    {p \in [1..Cardinality(S) -> S] : \A x \in S : \E k \in DOMAIN p : p[k] = x}

\* the statements of a loop over a map, bodies[n] being the statements of the
\* turn for key n, walked in the order p
InOrder(bodies, p) == Flatten([k \in 1..Len(p) |-> bodies[p[k]]])

\* the body of "for _, t := range stats", for every order in which Go may
\* walk t.Items and t.Slabs: head, then the turns of the two loops
statsBodies(head, itemsTurns, slabsTurns) ==
    {head \o InOrder(itemsTurns, itemsOrder) \o InOrder(slabsTurns, slabsOrder) :
        itemsOrder \in Perms(DOMAIN itemsTurns),
        slabsOrder \in Perms(DOMAIN slabsTurns)}

\* the body as it would be if the loop over t.Items read the record of the
\* lowest slab class in every turn
statsBodyFirstItems(t, srv) ==
    statsBodies(statsHead(t.Stats, srv),
                [n \in DOMAIN t.Items |->
                    itemsBody(t.Items[CHOOSE m \in DOMAIN t.Items :
                                          \A k \in DOMAIN t.Items : m <= k], n, srv)],
                [n \in DOMAIN t.Slabs |-> slabsBody(t.Slabs[n], n, srv)])

statsBody(t, srv) ==
    statsBodies(statsHead(t.Stats, srv),
                [n \in DOMAIN t.Items |-> itemsBody(t.Items[n], n, srv)],
                [n \in DOMAIN t.Slabs |-> slabsBody(t.Slabs[n], n, srv)])

\* parseStats(ch, stats, server): what it can send and return.  stats holds
\* the reply of at most one server (New is given one address).
parseStats(st, srv) ==
    IF st = <<>> THEN {StepAll(<<>>)}
    ELSE {StepAll(body) : body \in statsBody(st[1], srv)}

(***************************************************************************)
(* parseStatsSettings.                                                     *)
(***************************************************************************)
maxconnsStmt(settings, srv) ==
    parseAndNewMetric("maxConnections", GaugeValue, settings, "maxconns", <<srv>>)

\* the crawler group as it would be with "if _, ok := ...; ok", without
\* the comparison with "yes"
lruCrawlerStmtIfPresent(settings, srv) ==
    IF "lru_crawler" \in DOMAIN settings
    THEN <<Group(BindCalls(lruCrawlerCalls, settings, <<>>, srv))>>
    ELSE <<>>

lruCrawlerStmt(settings, srv) ==
    IF "lru_crawler" \in DOMAIN settings /\ settings["lru_crawler"] = <<"y", "e", "s">>
    THEN <<Group(BindCalls(lruCrawlerCalls, settings, <<>>, srv))>>
    ELSE <<>>

settingsBody(settings, srv) ==
    <<maxconnsStmt(settings, srv)>> \o lruCrawlerStmt(settings, srv)

parseStatsSettings(ss, srv) ==
    StepAll(Flatten([k \in 1..Len(ss) |-> settingsBody(ss[k], srv)]))

(***************************************************************************)
(* The replies of the memcached servers.  A reply is a base reply with a   *)
(* bounded number of deviations (faults): a key removed, added or given    *)
(* another raw value.                                                      *)
(***************************************************************************)
Absent == <<"<absent>">>
Junk == <<"x">>

Fault(part, slab, key, raw) ==
    [part |-> part, slab |-> slab, key |-> key, raw |-> raw]

\* the record m with the deviations fs applied
Override(m, fs) ==
    LET gone == {f.key : f \in {g \in fs : g.raw = Absent}}
        set == {f.key : f \in {g \in fs : g.raw # Absent}}
    IN  [k \in (DOMAIN m \cup set) \ gone |->
            IF k \in set THEN (CHOOSE f \in fs : f.key = k).raw ELSE m[k]]

\* the memcache.Stats of one server
StatsReply(base, fs) ==
    [Stats |-> Override(base.Stats, {f \in fs : f.part = "Stats"}),
     Items |-> [n \in DOMAIN base.Items |->
                   Override(base.Items[n], {f \in fs : f.part = "Items" /\ f.slab = n})],
     Slabs |-> [n \in DOMAIN base.Slabs |->
                   Override(base.Slabs[n], {f \in fs : f.part = "Slabs" /\ f.slab = n})]]

SettingsReply(base, fs) ==
    Override(base.Settings, {f \in fs : f.part = "Settings"})

ExtstoreKeys ==
    {"extstore_compact_lost", "extstore_compact_rescues", "extstore_compact_skipped",
     "extstore_page_allocs", "extstore_page_evictions", "extstore_page_reclaims",
     "extstore_pages_free", "extstore_pages_used", "extstore_objects_evicted",
     "extstore_objects_read", "extstore_objects_written", "extstore_objects_used",
     "extstore_bytes_evicted", "extstore_bytes_written", "extstore_bytes_read",
     "extstore_bytes_used", "extstore_bytes_fragmented", "extstore_limit_maxbytes",
     "extstore_io_queue"}

GeneralKeys ==
    {"get_hits", "get_misses", "delete_hits", "delete_misses", "incr_hits",
     "incr_misses", "decr_hits", "decr_misses", "touch_hits", "touch_misses",
     "uptime", "time", "cmd_flush",
     "bytes", "limit_maxbytes", "curr_items", "total_items", "bytes_read",
     "bytes_written", "curr_connections", "total_connections",
     "rejected_connections", "conn_yields", "listen_disabled_num", "evictions",
     "reclaimed", "lru_crawler_starts", "crawler_items_checked",
     "crawler_reclaimed", "moves_to_cold", "moves_to_warm", "moves_within_lru",
     "total_malloced", "accepting_conns"}

SetKeys ==
    ("cmd_set" :> <<"1", "2", "0">>) @@ ("cas_hits" :> <<"3">>) @@
    ("cas_misses" :> <<"2">>) @@ ("cas_badval" :> <<"1">>)

FullStats ==
    ("version" :> <<"1", ".", "6", ".", "9">>) @@
    ("rusage_user" :> <<"1", ".", "5">>) @@
    ("rusage_system" :> <<"0", ".", "2", "5">>) @@
    SetKeys @@
    [k \in GeneralKeys |-> <<"7">>] @@
    [k \in ExtstoreKeys |-> <<"4">>]

FullItems ==
    [k \in {"number", "age", "hits_to_hot", "hits_to_warm", "hits_to_cold",
            "hits_to_temp"} |-> <<"6">>] @@
    [k \in {itemsCounterMetrics[j][1] : j \in DOMAIN itemsCounterMetrics} |-> <<"5">>] @@
    [k \in {itemsGaugeMetrics[j][1] : j \in DOMAIN itemsGaugeMetrics} |-> <<"8">>]

FullSlabs ==
    ("cmd_set" :> <<"9">>) @@ ("cas_hits" :> <<"3">>) @@ ("cas_badval" :> <<"1">>) @@
    [k \in {"get_hits", "delete_hits", "incr_hits", "decr_hits", "touch_hits",
            "chunk_size", "chunks_per_page", "total_pages", "total_chunks",
            "used_chunks", "free_chunks", "free_chunks_end"} |-> <<"2">>]

FullSettings ==
    ("maxconns" :> <<"1", "0", "2", "4">>) @@
    ("lru_crawler" :> <<"y", "e", "s">>) @@
    ("lru_crawler_sleep" :> <<"1", "0", "0">>) @@
    ("lru_crawler_tocrawl" :> <<"0">>) @@
    ("lru_maintainer_thread" :> <<"y", "e", "s">>) @@
    ("hot_lru_pct" :> <<"2", "0">>) @@
    ("warm_lru_pct" :> <<"4", "0">>) @@
    ("hot_max_factor" :> <<"0", ".", "2">>) @@
    ("warm_max_factor" :> <<"2", ".", "0">>)

\* a server with every statistic the exporter knows, slab classes 1 and 4
FullBase ==
    [Stats |-> FullStats,
     Items |-> (1 :> FullItems) @@ (4 :> FullItems),
     Slabs |-> (1 :> FullSlabs) @@ (4 :> FullSlabs),
     Settings |-> FullSettings]

\* a server that reports little: items of the slab classes 3 and 12, the slab
\* statistics of class 12
SparseBase ==
    [Stats |-> ("version" :> <<"1", ".", "6">>) @@ ("get_hits" :> <<"7">>) @@ SetKeys,
     Items |-> (3 :> ("number" :> <<"2">>)) @@ (12 :> ("number" :> <<"6">>)),
     Slabs |-> (12 :> (("cmd_set" :> <<"9">>) @@ ("cas_hits" :> <<"3">>)
                       @@ ("cas_badval" :> <<"1">>))),
     Settings |-> ("maxconns" :> <<"1", "0", "2", "4">>)]

ParseFaults ==
    {Fault("Stats", 0, "version", Absent),
     Fault("Stats", 0, "get_hits", Junk),
     Fault("Stats", 0, "cmd_flush", Junk),
     Fault("Stats", 0, "cmd_set", Absent),
     Fault("Stats", 0, "cmd_set", Junk),
     Fault("Stats", 0, "cas_hits", Absent),
     Fault("Stats", 0, "cas_hits", Junk),
     Fault("Stats", 0, "cas_misses", Absent),
     Fault("Stats", 0, "cas_misses", Junk),
     Fault("Stats", 0, "cas_badval", Absent),
     Fault("Stats", 0, "cas_badval", Junk),
     Fault("Stats", 0, "extstore_limit_maxbytes", Absent),
     Fault("Stats", 0, "extstore_compact_lost", Junk),
     Fault("Stats", 0, "rusage_user", <<"5">>),
     Fault("Stats", 0, "rusage_system", Absent),
     Fault("Stats", 0, "bytes", Absent),
     Fault("Items", 1, "evicted", Junk),
     Fault("Items", 4, "evicted", Absent),
     Fault("Slabs", 1, "cmd_set", Absent),
     Fault("Slabs", 1, "cas_hits", Junk),
     Fault("Slabs", 1, "cas_misses", <<"2">>),
     Fault("Slabs", 1, "mem_requested", <<"5">>),
     Fault("Slabs", 4, "cas_badval", Absent),
     Fault("Settings", 0, "maxconns", Junk),
     Fault("Settings", 0, "lru_crawler", Absent),
     Fault("Settings", 0, "lru_crawler", Junk),
     Fault("Settings", 0, "lru_crawler", <<"n", "o">>),
     Fault("Settings", 0, "lru_crawler_sleep", Junk),
     Fault("Settings", 0, "lru_maintainer_thread", Absent),
     Fault("Settings", 0, "lru_maintainer_thread", <<"7">>)}

Site(f) == <<f.part, f.slab, f.key>>

RECURSIVE SubsetsUpTo(_, _)
\* the subsets of S with at most k elements
SubsetsUpTo(S, k) ==
    IF k = 0 THEN {{}}
    ELSE LET P == SubsetsUpTo(S, k - 1)
         IN  P \cup {p \cup {x} : p \in P, x \in S}

\* the sets of at most k deviations, no two of them at the same place
FaultSets(S, k) ==
    {fs \in SubsetsUpTo(S, k) : \A f, g \in fs : Site(f) = Site(g) => f = g}

ParseStatsFaultSets == FaultSets({f \in ParseFaults : f.part # "Settings"}, MaxFaults)
ParseSettingsFaultSets == FaultSets({f \in ParseFaults : f.part = "Settings"}, MaxFaults)
\* the concurrent family: the stats are the base reply or have one malformed
\* value, the settings are the base reply
ConcStatsFaultSets == {{}, {Fault("Stats", 0, "cmd_set", Junk)}}
ConcSettingsFaultSets == {{}}

\* the family of the parsers: a server whose rusage_user and
\* lru_maintainer_thread take many raw values, the rest of its reply small
\* and well-formed
Alphabet == {"0", "1", ".", "x"}

\* the strings over the alphabet of at most n characters
Strings(n) == UNION {[1..k -> Alphabet] : k \in 0..n}

TimevalRaws ==
    Strings(MaxLen)
    \cup {<<"1", ".", "5">>, <<"0", ".", "2", "5">>, <<"1", ".", "1", ".", "1">>,
          <<"1", "2", ".", "2", "1", "4", "7">>,
          <<"0", ".", "0", "0", "0", "0", "0", "1">>, Absent}

BoolRaws ==
    {<<"y", "e", "s">>, <<"n", "o">>, <<>>, <<"Y", "e", "s">>, <<"1">>, <<"0">>,
     <<"t", "r", "u", "e">>, <<"N", "O">>, <<"y", "e", "s", " ">>, Absent}

ParsersBase ==
    [Stats |-> ("rusage_user" :> <<"1", ".", "5">>) @@ SetKeys,
     Items |-> [n \in {} |-> <<>>],
     Slabs |-> [n \in {} |-> <<>>],
     Settings |-> ("maxconns" :> <<"1", "0", "2", "4">>) @@
                  ("lru_crawler" :> <<"y", "e", "s">>) @@
                  ("lru_maintainer_thread" :> <<"n", "o">>)]

ParsersStatsFaultSets == {{Fault("Stats", 0, "rusage_user", raw)} : raw \in TimevalRaws}
ParsersSettingsFaultSets ==
    {{Fault("Settings", 0, "lru_maintainer_thread", raw)} : raw \in BoolRaws}

\* the family of termination: the small reply of the parsers' family, the
\* stats as they are or with one malformed value, the settings as they are
FairStatsFaultSets == {{}, {Fault("Stats", 0, "rusage_user", Junk)}}
FairSettingsFaultSets == {{}}

Base(fam) ==
    CASE fam = "translation" -> FullBase
      [] fam \in {"parsers", "termination"} -> ParsersBase
      [] OTHER -> SparseBase

\* what c.Stats() can return without an error
StatsFaultSets(fam) ==
    CASE fam = "translation" -> ParseStatsFaultSets
      [] fam = "parsers" -> ParsersStatsFaultSets
      [] fam = "termination" -> FairStatsFaultSets
      [] OTHER -> ConcStatsFaultSets

\* what c.StatsSettings() can return without an error, the reply of
\* c.Stats() deviating by used
SettingsFaultSets(fam, used) ==
    CASE fam = "translation" ->
             {fs \in ParseSettingsFaultSets :
                 Cardinality(fs) + Cardinality(used) <= MaxFaults}
      [] fam = "parsers" -> ParsersSettingsFaultSets
      [] fam = "termination" -> FairSettingsFaultSets
      [] OTHER -> ConcSettingsFaultSets

(***************************************************************************)
(* The descriptors: the fields of the Exporter, Describe.                  *)
(***************************************************************************)
\* the *prometheus.Desc fields of the Exporter struct, in declared order
ExporterDescs ==
    <<"up", "uptime", "time", "version",
      "rusageUser", "rusageSystem", "bytesRead", "bytesWritten",
      "currentConnections", "maxConnections", "connectionsTotal", "rejectedConnections",
      "connsYieldedTotal", "listenerDisabledTotal", "currentBytes", "limitBytes",
      "commands", "items", "itemsTotal", "evictions",
      "reclaimed", "lruCrawlerEnabled", "lruCrawlerSleep", "lruCrawlerMaxItems",
      "lruMaintainerThread", "lruHotPercent", "lruWarmPercent", "lruHotMaxAgeFactor",
      "lruWarmMaxAgeFactor", "lruCrawlerStarts", "lruCrawlerReclaimed", "lruCrawlerItemsChecked",
      "lruCrawlerMovesToCold", "lruCrawlerMovesToWarm", "lruCrawlerMovesWithinLru", "malloced",
      "itemsNumber", "itemsAge", "itemsCrawlerReclaimed", "itemsEvicted",
      "itemsEvictedNonzero", "itemsEvictedTime", "itemsEvictedUnfetched", "itemsExpiredUnfetched",
      "itemsOutofmemory", "itemsReclaimed", "itemsTailrepairs", "itemsMovesToCold",
      "itemsMovesToWarm", "itemsMovesWithinLru", "itemsHot", "itemsWarm",
      "itemsCold", "itemsTemporary", "itemsAgeOldestHot", "itemsAgeOldestWarm",
      "itemsLruHits", "slabsChunkSize", "slabsChunksPerPage", "slabsCurrentPages",
      "slabsCurrentChunks", "slabsChunksUsed", "slabsChunksFree", "slabsChunksFreeEnd",
      "slabsMemRequested", "slabsCommands", "extstoreCompactLost", "extstoreCompactRescues",
      "extstoreCompactSkipped", "extstorePageAllocs", "extstorePageEvictions", "extstorePageReclaims",
      "extstorePagesFree", "extstorePagesUsed", "extstoreObjectsEvicted", "extstoreObjectsRead",
      "extstoreObjectsWritten", "extstoreObjectsUsed", "extstoreBytesEvicted", "extstoreBytesWritten",
      "extstoreBytesRead", "extstoreBytesUsed", "extstoreBytesLimit", "extstoreBytesFragmented",
      "extstoreIOQueueDepth", "acceptingConnections">>

\* New: the descriptors it creates with prometheus.NewDesc, each with its
\* variableLabels
NewDescs ==
    << <<"up", <<"server">> >>, <<"uptime", <<"server">> >>, <<"time", <<"server">> >>,
       <<"version", <<"version", "server">> >>, <<"rusageUser", <<"server">> >>,
       <<"rusageSystem", <<"server">> >>, <<"bytesRead", <<"server">> >>,
       <<"bytesWritten", <<"server">> >>, <<"currentConnections", <<"server">> >>,
       <<"maxConnections", <<"server">> >>, <<"connectionsTotal", <<"server">> >>,
       <<"rejectedConnections", <<"server">> >>, <<"connsYieldedTotal", <<"server">> >>,
       <<"listenerDisabledTotal", <<"server">> >>, <<"currentBytes", <<"server">> >>,
       <<"limitBytes", <<"server">> >>, <<"commands", <<"command", "status", "server">> >>,
       <<"items", <<"server">> >>, <<"itemsTotal", <<"server">> >>,
       <<"evictions", <<"server">> >>, <<"reclaimed", <<"server">> >>,
       <<"lruCrawlerEnabled", <<"server">> >>, <<"lruCrawlerSleep", <<"server">> >>,
       <<"lruCrawlerMaxItems", <<"server">> >>, <<"lruMaintainerThread", <<"server">> >>,
       <<"lruHotPercent", <<"server">> >>, <<"lruWarmPercent", <<"server">> >>,
       <<"lruHotMaxAgeFactor", <<"server">> >>, <<"lruWarmMaxAgeFactor", <<"server">> >>,
       <<"lruCrawlerStarts", <<"server">> >>, <<"lruCrawlerReclaimed", <<"server">> >>,
       <<"lruCrawlerItemsChecked", <<"server">> >>, <<"lruCrawlerMovesToCold", <<"server">> >>,
       <<"lruCrawlerMovesToWarm", <<"server">> >>,
       <<"lruCrawlerMovesWithinLru", <<"server">> >>, <<"malloced", <<"server">> >>,
       <<"itemsNumber", <<"slab", "server">> >>, <<"itemsAge", <<"slab", "server">> >>,
       <<"itemsCrawlerReclaimed", <<"slab", "server">> >>,
       <<"itemsEvicted", <<"slab", "server">> >>,
       <<"itemsEvictedNonzero", <<"slab", "server">> >>,
       <<"itemsEvictedTime", <<"slab", "server">> >>,
       <<"itemsEvictedUnfetched", <<"slab", "server">> >>,
       <<"itemsExpiredUnfetched", <<"slab", "server">> >>,
       <<"itemsOutofmemory", <<"slab", "server">> >>,
       <<"itemsReclaimed", <<"slab", "server">> >>,
       <<"itemsTailrepairs", <<"slab", "server">> >>,
       <<"itemsMovesToCold", <<"slab", "server">> >>,
       <<"itemsMovesToWarm", <<"slab", "server">> >>,
       <<"itemsMovesWithinLru", <<"slab", "server">> >>, <<"itemsHot", <<"slab", "server">> >>,
       <<"itemsWarm", <<"slab", "server">> >>, <<"itemsCold", <<"slab", "server">> >>,
       <<"itemsTemporary", <<"slab", "server">> >>,
       <<"itemsAgeOldestHot", <<"slab", "server">> >>,
       <<"itemsAgeOldestWarm", <<"slab", "server">> >>,
       <<"itemsLruHits", <<"slab", "lru", "server">> >>,
       <<"slabsChunkSize", <<"slab", "server">> >>,
       <<"slabsChunksPerPage", <<"slab", "server">> >>,
       <<"slabsCurrentPages", <<"slab", "server">> >>,
       <<"slabsCurrentChunks", <<"slab", "server">> >>,
       <<"slabsChunksUsed", <<"slab", "server">> >>,
       <<"slabsChunksFree", <<"slab", "server">> >>,
       <<"slabsChunksFreeEnd", <<"slab", "server">> >>,
       <<"slabsMemRequested", <<"slab", "server">> >>,
       <<"slabsCommands", <<"slab", "command", "status", "server">> >>,
       <<"extstoreCompactLost", <<"server">> >>, <<"extstoreCompactRescues", <<"server">> >>,
       <<"extstoreCompactSkipped", <<"server">> >>, <<"extstorePageAllocs", <<"server">> >>,
       <<"extstorePageEvictions", <<"server">> >>, <<"extstorePageReclaims", <<"server">> >>,
       <<"extstorePagesFree", <<"server">> >>, <<"extstorePagesUsed", <<"server">> >>,
       <<"extstoreObjectsEvicted", <<"server">> >>, <<"extstoreObjectsRead", <<"server">> >>,
       <<"extstoreObjectsWritten", <<"server">> >>, <<"extstoreObjectsUsed", <<"server">> >>,
       <<"extstoreBytesEvicted", <<"server">> >>, <<"extstoreBytesWritten", <<"server">> >>,
       <<"extstoreBytesRead", <<"server">> >>, <<"extstoreBytesUsed", <<"server">> >>,
       <<"extstoreBytesFragmented", <<"server">> >>, <<"extstoreBytesLimit", <<"server">> >>,
       <<"extstoreIOQueueDepth", <<"server">> >>, <<"acceptingConnections", <<"server">> >> >>

\* the label names a descriptor declares
variableLabels ==
    [desc \in {NewDescs[k][1] : k \in DOMAIN NewDescs} |->
        NewDescs[CHOOSE k \in DOMAIN NewDescs : NewDescs[k][1] = desc][2]]

\* the descriptors Describe sends on its channel, in order
DescribeSends ==
    <<"up", "uptime", "time", "version",
      "rusageUser", "rusageSystem", "bytesRead", "bytesWritten",
      "currentConnections", "maxConnections", "connectionsTotal", "rejectedConnections",
      "connsYieldedTotal", "listenerDisabledTotal", "currentBytes", "limitBytes",
      "commands", "items", "itemsTotal", "evictions",
      "reclaimed", "lruCrawlerEnabled", "lruCrawlerSleep", "lruCrawlerMaxItems",
      "lruMaintainerThread", "lruHotPercent", "lruWarmPercent", "lruHotMaxAgeFactor",
      "lruWarmMaxAgeFactor", "lruCrawlerStarts", "lruCrawlerReclaimed", "lruCrawlerItemsChecked",
      "lruCrawlerMovesToCold", "lruCrawlerMovesToWarm", "lruCrawlerMovesWithinLru", "itemsLruHits",
      "malloced", "itemsNumber", "itemsAge", "itemsCrawlerReclaimed",
      "itemsEvicted", "itemsEvictedNonzero", "itemsEvictedTime", "itemsEvictedUnfetched",
      "itemsExpiredUnfetched", "itemsOutofmemory", "itemsReclaimed", "itemsTailrepairs",
      "itemsExpiredUnfetched", "itemsMovesToCold", "itemsMovesToWarm", "itemsMovesWithinLru",
      "itemsHot", "itemsWarm", "itemsCold", "itemsTemporary",
      "itemsAgeOldestHot", "itemsAgeOldestWarm", "slabsChunkSize", "slabsChunksPerPage",
      "slabsCurrentPages", "slabsCurrentChunks", "slabsChunksUsed", "slabsChunksFree",
      "slabsChunksFreeEnd", "slabsMemRequested", "slabsCommands", "extstoreCompactLost",
      "extstoreCompactRescues", "extstoreCompactSkipped", "extstorePageAllocs", "extstorePageEvictions",
      "extstorePageReclaims", "extstorePagesFree", "extstorePagesUsed", "extstoreObjectsEvicted",
      "extstoreObjectsRead", "extstoreObjectsWritten", "extstoreObjectsUsed", "extstoreBytesEvicted",
      "extstoreBytesWritten", "extstoreBytesRead", "extstoreBytesUsed", "extstoreBytesFragmented",
      "extstoreBytesLimit", "extstoreIOQueueDepth", "acceptingConnections">>

(***************************************************************************)
(* Collect and CollectServer.                                              *)
(***************************************************************************)
Workers == 1..Len(addresses)

\* the address of the k-th configured server
Addr(k) == "s" \o Itoa(k) \o ":11211"

NoConn == [new |-> "none", stats |-> "none", settings |-> "none"]
NoErrors == [stats |-> nil, settings |-> nil]

Start(fam, addrs) ==
    /\ family = fam
    /\ addresses = addrs
    /\ described = <<>>
    /\ mainpc = "registering"
    /\ i = 1
    /\ address = ""
    /\ wg = 0
    /\ ch = {}
    /\ late = {}
    /\ wpc = [w \in 1..Len(addrs) |-> "none"]
    /\ server = [w \in 1..Len(addrs) |-> ""]
    /\ conn = [w \in 1..Len(addrs) |-> NoConn]
    /\ faults = [w \in 1..Len(addrs) |-> {}]
    /\ stats = [w \in 1..Len(addrs) |-> <<>>]
    /\ statsSettings = [w \in 1..Len(addrs) |-> <<>>]
    /\ up = [w \in 1..Len(addrs) |-> 0]
    /\ perr = [w \in 1..Len(addrs) |-> NoErrors]
    /\ calls = [w \in 1..Len(addrs) |-> {}]
    /\ nsent = [w \in 1..Len(addrs) |-> 0]

\* New(server, ...) with NumServers addresses; the replies are sparse
Init == Start("concurrent", [k \in 1..NumServers |-> Addr(k)])

\* New(server, ...) with one address; the replies are rich
InitTranslation == Start("translation", <<Addr(1)>>)

\* New(server, ...) with NumServers addresses; the replies are small
InitFair == Start("termination", [k \in 1..NumServers |-> Addr(k)])

\* New(server, ...) with one address; the replies exercise the parsers
InitParsers == Start("parsers", <<Addr(1)>>)

\* the registry, when the Exporter is registered, calls Describe with a
\* channel of its own; it calls Collect only afterwards
Describe ==
    /\ mainpc = "registering"
    /\ described' = DescribeSends
    /\ mainpc' = "idle"
    /\ UNCHANGED <<family, addresses, i, address, wg, ch, late, wpc, server,
                   conn, faults, stats, statsSettings, up, perr, calls, nsent>>

\* the registry calls Collect with a channel of its own
CollectCall ==
    /\ mainpc \in {"idle", "returned"}
    /\ mainpc' = IF Len(addresses) = 0 THEN "wait" ELSE "loop"
    /\ i' = 1
    /\ wg' = 0
    /\ ch' = {}
    /\ late' = {}
    /\ wpc' = [w \in Workers |-> "none"]
    /\ server' = [w \in Workers |-> ""]
    /\ conn' = [w \in Workers |-> NoConn]
    /\ faults' = [w \in Workers |-> {}]
    /\ stats' = [w \in Workers |-> <<>>]
    /\ statsSettings' = [w \in Workers |-> <<>>]
    /\ up' = [w \in Workers |-> 0]
    /\ perr' = [w \in Workers |-> NoErrors]
    /\ calls' = [w \in Workers |-> {}]
    /\ nsent' = [w \in Workers |-> 0]
    /\ address' = ""
    /\ UNCHANGED <<family, addresses, described>>

\* one iteration of the range loop: wg.Add(1); go func(server string){...}(address)
\* and, after the last one, the way to wg.Wait()
Loop ==
    /\ mainpc = "loop"
    /\ i <= Len(addresses)
    /\ address' = addresses[i]
    /\ wg' = wg + 1
    /\ server' = [server EXCEPT ![i] = addresses[i]]
    /\ wpc' = [wpc EXCEPT ![i] = "New"]
    /\ i' = i + 1
    /\ mainpc' = IF i = Len(addresses) THEN "wait" ELSE "loop"
    /\ UNCHANGED <<family, addresses, described, ch, late, conn, faults,
                   stats, statsSettings, up, perr, calls, nsent>>

\* Collect as it would be without wg.Wait()
WaitReturnsAtOnce == TRUE

\* wg.Wait() returns
WaitReturns == wg = 0

Wait ==
    /\ mainpc = "wait"
    /\ WaitReturns
    /\ mainpc' = "returned"
    /\ UNCHANGED <<family, addresses, described, i, address, wg, ch, late, wpc,
                   server, conn, faults, stats, statsSettings, up, perr, calls,
                   nsent>>

\* the goroutine as it would be if its body read the loop variable address
\* instead of taking it as the parameter server
ServerOfLoopVariable(w) == address

\* the parameter server of the goroutine of worker w
ServerOf(w) == server[w]

\* "ch <- m" for every m of metrics, by worker w
SendAll(w, metrics) ==
    LET items == {[metric |-> m, by |-> w, seq |-> nsent[w] + 1] : m \in metrics}
    IN  /\ ch' = ch \cup items
        /\ late' = IF mainpc = "returned" THEN late \cup items ELSE late
        /\ nsent' = [nsent EXCEPT ![w] = @ + 1]

upMetric(value, srv) == NewConstMetric("up", GaugeValue, value, <<srv>>)

\* the failed memcache.New(server) as it would be without the return
NewFailsNoReturn(w) ==
    /\ wpc[w] = "New"
    /\ conn' = [conn EXCEPT ![w].new = "failed"]
    /\ SendAll(w, {upMetric(0, server[w])})
    /\ wpc' = [wpc EXCEPT ![w] = "Stats"]
    /\ UNCHANGED <<family, addresses, described, mainpc, i, address, wg, server,
                   faults, stats, statsSettings, up, perr, calls>>

\* memcache.New(server) fails: up 0 is sent and CollectServer returns
NewFails(w) ==
    /\ wpc[w] = "New"
    /\ conn' = [conn EXCEPT ![w].new = "failed"]
    /\ SendAll(w, {upMetric(0, ServerOf(w))})
    /\ wpc' = [wpc EXCEPT ![w] = "Done"]
    /\ UNCHANGED <<family, addresses, described, mainpc, i, address, wg, server,
                   faults, stats, statsSettings, up, perr, calls>>

\* memcache.New(server) succeeds; up := float64(1)
NewSucceeds(w) ==
    /\ wpc[w] = "New"
    /\ conn' = [conn EXCEPT ![w].new = "ok"]
    /\ up' = [up EXCEPT ![w] = 1 * Micro]
    /\ wpc' = [wpc EXCEPT ![w] = "Stats"]
    /\ UNCHANGED <<family, addresses, described, mainpc, i, address, wg, ch, late,
                   server, faults, stats, statsSettings, perr, calls, nsent>>

\* stats, err := c.Stats() with err != nil
StatsFails(w) ==
    /\ wpc[w] = "Stats"
    /\ conn' = [conn EXCEPT ![w].stats = "failed"]
    /\ stats' = [stats EXCEPT ![w] = <<>>]
    /\ up' = [up EXCEPT ![w] = 0]
    /\ wpc' = [wpc EXCEPT ![w] = "StatsSettings"]
    /\ UNCHANGED <<family, addresses, described, mainpc, i, address, wg, ch, late,
                   server, faults, statsSettings, perr, calls, nsent>>

\* the successful c.Stats() as it would be if parseStats came right after it,
\* before c.StatsSettings()
StatsSucceedsThenParses(w) ==
    /\ wpc[w] = "Stats"
    /\ \E fs \in StatsFaultSets(family) :
          /\ faults' = [faults EXCEPT ![w] = fs]
          /\ stats' = [stats EXCEPT ![w] = <<StatsReply(Base(family), fs)>>]
    /\ conn' = [conn EXCEPT ![w].stats = "ok"]
    /\ wpc' = [wpc EXCEPT ![w] = "parseStats"]
    /\ UNCHANGED <<family, addresses, described, mainpc, i, address, wg, ch, late,
                   server, statsSettings, up, perr, calls, nsent>>

\* stats, err := c.Stats() with err == nil
StatsSucceeds(w) ==
    /\ wpc[w] = "Stats"
    /\ \E fs \in StatsFaultSets(family) :
          /\ faults' = [faults EXCEPT ![w] = fs]
          /\ stats' = [stats EXCEPT ![w] = <<StatsReply(Base(family), fs)>>]
    /\ conn' = [conn EXCEPT ![w].stats = "ok"]
    /\ wpc' = [wpc EXCEPT ![w] = "StatsSettings"]
    /\ UNCHANGED <<family, addresses, described, mainpc, i, address, wg, ch, late,
                   server, statsSettings, up, perr, calls, nsent>>

\* the failed c.StatsSettings() as it would be without "up = 0"
StatsSettingsFailsKeepsUp(w) ==
    /\ wpc[w] = "StatsSettings"
    /\ conn' = [conn EXCEPT ![w].settings = "failed"]
    /\ statsSettings' = [statsSettings EXCEPT ![w] = <<>>]
    /\ wpc' = [wpc EXCEPT ![w] = "parseStats"]
    /\ UNCHANGED <<family, addresses, described, mainpc, i, address, wg, ch, late,
                   server, faults, stats, up, perr, calls, nsent>>

\* statsSettings, err := c.StatsSettings() with err != nil
StatsSettingsFails(w) ==
    /\ wpc[w] = "StatsSettings"
    /\ conn' = [conn EXCEPT ![w].settings = "failed"]
    /\ statsSettings' = [statsSettings EXCEPT ![w] = <<>>]
    /\ up' = [up EXCEPT ![w] = 0]
    /\ wpc' = [wpc EXCEPT ![w] = "parseStats"]
    /\ UNCHANGED <<family, addresses, described, mainpc, i, address, wg, ch, late,
                   server, faults, stats, perr, calls, nsent>>

\* statsSettings, err := c.StatsSettings() with err == nil
StatsSettingsSucceeds(w) ==
    /\ wpc[w] = "StatsSettings"
    /\ \E fs \in SettingsFaultSets(family, faults[w]) :
          /\ faults' = [faults EXCEPT ![w] = @ \cup fs]
          /\ statsSettings' = [statsSettings EXCEPT ![w] =
                                  <<SettingsReply(Base(family), fs)>>]
    /\ conn' = [conn EXCEPT ![w].settings = "ok"]
    /\ wpc' = [wpc EXCEPT ![w] = "parseStats"]
    /\ UNCHANGED <<family, addresses, described, mainpc, i, address, wg, ch, late,
                   server, stats, up, perr, calls, nsent>>

\* if err := e.parseStats(ch, stats, server); err != nil { up = 0 }
ParseStats(w) ==
    /\ wpc[w] = "parseStats"
    /\ \E r \in parseStats(stats[w], ServerOf(w)) :
          /\ SendAll(w, r.sent)
          /\ calls' = [calls EXCEPT ![w] = @ \cup r.calls]
          /\ perr' = [perr EXCEPT ![w].stats = r.parseError]
          /\ up' = [up EXCEPT ![w] = IF r.parseError # nil THEN 0 ELSE @]
    /\ wpc' = [wpc EXCEPT ![w] = "parseStatsSettings"]
    /\ UNCHANGED <<family, addresses, described, mainpc, i, address, wg, server,
                   conn, faults, stats, statsSettings>>

\* if err := e.parseStatsSettings(ch, statsSettings, server); err != nil { up = 0 }
ParseStatsSettings(w) ==
    /\ wpc[w] = "parseStatsSettings"
    /\ \E r \in {parseStatsSettings(statsSettings[w], ServerOf(w))} :
           /\ SendAll(w, r.sent)
           /\ calls' = [calls EXCEPT ![w] = @ \cup r.calls]
           /\ perr' = [perr EXCEPT ![w].settings = r.parseError]
           /\ up' = [up EXCEPT ![w] = IF r.parseError # nil THEN 0 ELSE @]
    /\ wpc' = [wpc EXCEPT ![w] = "up"]
    /\ UNCHANGED <<family, addresses, described, mainpc, i, address, wg, server,
                   conn, faults, stats, statsSettings>>

\* ch <- prometheus.MustNewConstMetric(e.up, prometheus.GaugeValue, up, server)
SendUp(w) ==
    /\ wpc[w] = "up"
    /\ SendAll(w, {upMetric(up[w], ServerOf(w))})
    /\ wpc' = [wpc EXCEPT ![w] = "Done"]
    /\ UNCHANGED <<family, addresses, described, mainpc, i, address, wg, server,
                   conn, faults, stats, statsSettings, up, perr, calls>>

\* the goroutine as it would be if it called wg.Done() only for a server it
\* found up
DoneIfUp(w) ==
    /\ wpc[w] = "Done"
    /\ up[w] # 0
    /\ wg' = wg - 1
    /\ wpc' = [wpc EXCEPT ![w] = "finished"]
    /\ UNCHANGED <<family, addresses, described, mainpc, i, address, ch, late,
                   server, conn, faults, stats, statsSettings, up, perr, calls,
                   nsent>>

\* wg.Done()
Done(w) ==
    /\ wpc[w] = "Done"
    /\ wg' = wg - 1
    /\ wpc' = [wpc EXCEPT ![w] = "finished"]
    /\ UNCHANGED <<family, addresses, described, mainpc, i, address, ch, late,
                   server, conn, faults, stats, statsSettings, up, perr, calls,
                   nsent>>

CollectServer(w) ==
    \/ NewFails(w)
    \/ NewSucceeds(w)
    \/ StatsFails(w)
    \/ StatsSucceeds(w)
    \/ StatsSettingsFails(w)
    \/ StatsSettingsSucceeds(w)
    \/ ParseStats(w)
    \/ ParseStatsSettings(w)
    \/ SendUp(w)

Next ==
    \/ Describe
    \/ CollectCall
    \/ Loop
    \/ Wait
    \/ \E w \in Workers : CollectServer(w)
    \/ \E w \in Workers : Done(w)

Spec == Init /\ [][Next]_vars

SpecTranslation == InitTranslation /\ [][Next]_vars

SpecParsers == InitParsers /\ [][Next]_vars

\* the goroutine of Collect and the goroutines it starts are scheduled again
\* and again, every connect and fetch returns and every send on the channel
\* is received; when Collect is called is up to the registry
Fairness ==
    /\ WF_vars(Loop)
    /\ WF_vars(Wait)
    /\ \A w \in 1..NumServers : WF_vars(CollectServer(w))
    /\ \A w \in 1..NumServers : WF_vars(Done(w))

SpecFair == InitFair /\ [][Next]_vars /\ Fairness

(***************************************************************************)
(* Properties of the collection cycle.                                     *)
(***************************************************************************)
\* what worker w has sent on the channel in this cycle
SentBy(w) == {it \in ch : it.by = w}

\* the reachability observations labelled with the k-th configured address
UpOf(k) ==
    {it \in ch : it.metric.desc = "up" /\ it.metric.labelValues = <<addresses[k]>>}

\* C1: in a collection cycle there is never more than one reachability
\* observation labelled with a configured address, and once the worker of
\* that address has finished, or Collect has returned, there is exactly one,
\* whatever the connect, the fetches and the translation did.
ExactlyOneUpPerServer ==
    \A k \in 1..Len(addresses) :
        /\ Cardinality(UpOf(k)) <= 1
        /\ (wpc[k] = "finished" \/ mainpc = "returned") => Cardinality(UpOf(k)) = 1

\* Collect has returned; the client of one server could not be constructed, a
\* fetch of another failed or its reply had a malformed value
ExactlyOneUpPerServerWitness ==
    /\ mainpc = "returned"
    /\ \E v, w \in Workers :
          /\ conn[v].new = "failed"
          /\ conn[w].new = "ok"
          /\ conn[w].stats = "failed" \/ conn[w].settings = "failed" \/ faults[w] # {}
          /\ Cardinality(UpOf(v)) = 1
          /\ Cardinality(UpOf(w)) = 1

\* the connection of worker w succeeded and both translation passes returned nil
Healthy(w) ==
    /\ conn[w].new = "ok"
    /\ conn[w].stats = "ok"
    /\ conn[w].settings = "ok"
    /\ perr[w].stats = nil
    /\ perr[w].settings = nil

\* C2: every reachability observation has the value 0 or 1, and it is 1
\* exactly when the client was constructed, both fetches succeeded and both
\* parseStats and parseStatsSettings returned no error.
UpIsOneIffHealthy ==
    \A it \in ch :
        it.metric.desc = "up" =>
            /\ it.metric.value \in {0, 1 * Micro}
            /\ it.metric.value = 1 * Micro <=> Healthy(it.by)

\* the connection and both fetches succeeded, a translation pass returned an
\* error, and the reachability observation sent is 0
UpIsOneIffHealthyWitness ==
    \E it \in ch :
        /\ it.metric.desc = "up"
        /\ it.metric.value = 0
        /\ conn[it.by] = [new |-> "ok", stats |-> "ok", settings |-> "ok"]
        /\ perr[it.by].stats # nil \/ perr[it.by].settings # nil

\* C3: when the client of a server cannot be constructed or its stats fetch
\* fails, the only observation the worker of that server sends in the cycle is
\* reachability 0, also when the later settings fetch succeeds.
ConnectionFailureSendsOnlyUpZero ==
    \A w \in Workers :
        (conn[w].new = "failed" \/ conn[w].stats = "failed") =>
            \A it \in SentBy(w) : it.metric = upMetric(0, addresses[w])

\* the up value CollectServer sends after two fetches with the outcomes of c
\* and two translation passes that returned statsErr and settingsErr
UpValue(c, statsErr, settingsErr) ==
    IF c.stats = "ok" /\ c.settings = "ok" /\ statsErr = nil /\ settingsErr = nil
    THEN 1 * Micro ELSE 0

\* what a worker can send in all, given only the outcome of its own connect
\* and fetches (c), its own records (st, ss) and its own address (srv)
OwnOutcomes(c, st, ss, srv) ==
    IF c.new = "failed" THEN {{upMetric(0, srv)}}
    ELSE {r.sent \cup q.sent
              \cup {upMetric(UpValue(c, r.parseError, q.parseError), srv)} :
            r \in parseStats(st, srv), q \in {parseStatsSettings(ss, srv)}}

\* C4: what the finished worker of a server has sent is determined by that
\* server's own connect and fetch outcome, records and address, in every
\* interleaving with the workers of the other servers and whatever those
\* met; every observation carries the address of the worker that sent it.
ServerIsolation ==
    /\ \A it \in ch :
          it.metric.labelValues[Len(it.metric.labelValues)] = addresses[it.by]
    /\ \A w \in Workers :
          wpc[w] = "finished" =>
              {it.metric : it \in SentBy(w)}
                  \in OwnOutcomes(conn[w], stats[w], statsSettings[w], addresses[w])

\* two workers have finished: one met a failed connect or fetch, the other
\* did not and reported 1
ServerIsolationWitness ==
    \E v, w \in Workers :
        /\ wpc[v] = "finished"
        /\ wpc[w] = "finished"
        /\ conn[v].new = "failed" \/ conn[v].stats = "failed"
        /\ Healthy(w)
        /\ \E it \in SentBy(w) : it.metric = upMetric(1 * Micro, addresses[w])
        /\ \E it \in SentBy(v) : it.metric = upMetric(0, addresses[v])

\* C5: when Collect has returned, every worker has finished and has sent its
\* reachability observation, and nothing is ever sent on the channel of a
\* cycle after its Collect has returned.
JoinBarrier ==
    /\ late = {}
    /\ mainpc = "returned" =>
          \A w \in Workers :
              /\ wpc[w] = "finished"
              /\ \E it \in SentBy(w) : it.metric.desc = "up"

\* Collect has returned after a worker that failed and one that succeeded
JoinBarrierWitness ==
    /\ mainpc = "returned"
    /\ \E v, w \in Workers : conn[v].new = "failed" /\ Healthy(w)
    /\ \A w \in Workers : wpc[w] = "finished"

(***************************************************************************)
(* Properties of the translation passes.                                   *)
(***************************************************************************)
\* worker w has run parseStats on a stats record it fetched
Translated(w) ==
    /\ wpc[w] \in {"parseStatsSettings", "up", "Done", "finished"}
    /\ stats[w] # <<>>

\* worker w has run parseStatsSettings on a settings record it fetched
SettingsTranslated(w) ==
    /\ wpc[w] \in {"up", "Done", "finished"}
    /\ statsSettings[w] # <<>>

\* the key is in the record m and its value is a number
Numeric(m, key) == key \in DOMAIN m /\ ParseFloat(m[key]).err = nil

Num(m, key) == ParseFloat(m[key]).v

\* what worker w has sent with the descriptor desc and these label values
Observed(w, desc, labelValues) ==
    {it \in SentBy(w) :
        it.metric.desc = desc /\ it.metric.labelValues = labelValues}

\* out holds one observation and its value is value
OnlyValue(out, value) == \E it \in out : out = {it} /\ it.metric.value = value

\* the derived observation out of the record m: present with the value
\* m[total] minus the sum of m[k] for the keys k of minus when all of these
\* keys are numeric, missing otherwise
DerivedFrom(out, m, total, minus) ==
    IF \A k \in {total} \cup {minus[j] : j \in DOMAIN minus} : Numeric(m, k)
    THEN OnlyValue(out, Num(m, total) - sum(m, minus).v)
    ELSE out = {}

\* C6: after parseStats, commands{command="set",status="hit"} has been sent
\* exactly when cmd_set, cas_hits, cas_misses and cas_badval are all present
\* and numeric, its value is then cmd_set - (cas_hits + cas_misses +
\* cas_badval), and when it has not been sent parseStats returned an error.
ServerPlainSet ==
    \A w \in Workers :
        Translated(w) =>
            /\ DerivedFrom(Observed(w, "commands", <<"set", "hit", addresses[w]>>),
                           stats[w][1].Stats, "cmd_set",
                           <<"cas_hits", "cas_misses", "cas_badval">>)
            /\ Observed(w, "commands", <<"set", "hit", addresses[w]>>) = {}
                   => perr[w].stats # nil

\* cmd_set 120, cas_hits 3, cas_misses 2, cas_badval 1 gave 114
ServerPlainSetWitness ==
    \E w \in Workers :
        /\ Translated(w)
        /\ MapGet(stats[w][1].Stats, "cmd_set") = <<"1", "2", "0">>
        /\ OnlyValue(Observed(w, "commands", <<"set", "hit", addresses[w]>>),
                     114 * Micro)

ObservedFor(w, c) ==
    {it \in Observed(w, c.desc, c.labelValues) : it.metric.valueType = c.valueType}

\* C8: a binder call (parseAndNewMetric, parseBoolAndNewMetric,
\* parseTimevalAndNewMetric) for a key that is missing from its record sends
\* nothing and returns nil.
MissingKeyIsNoOp ==
    \A w \in Workers :
        \A c \in calls[w] :
            ~c.present => ~c.sent /\ c.err = nil /\ ObservedFor(w, c) = {}

\* each of the three binders has been called for a missing key
MissingKeyIsNoOpWitness ==
    \E w \in Workers :
        /\ SettingsTranslated(w)
        /\ \A f \in {"parse", "parseBool", "parseTimeval"} :
              \E c \in calls[w] : c.f = f /\ ~c.present

\* the value of key is well-formed for the parser the code reads it with
WellFormed(key, raw) ==
    IF key \in {"rusage_user", "rusage_system"} THEN timevalOf(Split(raw, ".")).err = nil
    ELSE IF key \in {"lru_crawler", "lru_maintainer_thread"}
    THEN raw \in {<<"y", "e", "s">>, <<"n", "o">>}
    ELSE IF key = "version" THEN TRUE
    ELSE ParseFloat(raw).err = nil

AllWellFormed(m) == \A key \in DOMAIN m : WellFormed(key, m[key])

\* the connection and both fetches of worker w succeeded and every value of
\* its records is well-formed
FetchedWellFormed(w) ==
    /\ conn[w] = [new |-> "ok", stats |-> "ok", settings |-> "ok"]
    /\ AllWellFormed(stats[w][1].Stats)
    /\ \A n \in DOMAIN stats[w][1].Items : AllWellFormed(stats[w][1].Items[n])
    /\ \A n \in DOMAIN stats[w][1].Slabs : AllWellFormed(stats[w][1].Slabs[n])
    /\ AllWellFormed(statsSettings[w][1])

\* the keys of the two derivations are in the records of worker w
DerivationKeysPresent(w) ==
    /\ {"cmd_set", "cas_hits", "cas_misses", "cas_badval"} \subseteq DOMAIN stats[w][1].Stats
    /\ \A n \in DOMAIN stats[w][1].Slabs :
          {"cmd_set", "cas_hits", "cas_badval"} \subseteq DOMAIN stats[w][1].Slabs[n]

ReportedUp(w) == \E it \in SentBy(w) : it.metric = upMetric(1 * Micro, addresses[w])

\* C9, as claimed: when the connection and both fetches succeeded and every
\* value present in the records is well-formed, the reachability observation
\* is 1, whichever keys are missing.
AbsentKeyNeverFails ==
    \A w \in Workers :
        (wpc[w] = "finished" /\ FetchedWellFormed(w)) => ReportedUp(w)

\* C9, amended: when the connection and both fetches succeeded, every value
\* present in the records is well-formed, and cmd_set, cas_hits, cas_misses
\* and cas_badval are present in the stats and cmd_set, cas_hits and
\* cas_badval in every slab record, the reachability observation is 1,
\* whichever other keys are missing.
AbsentOtherKeyNeverFails ==
    \A w \in Workers :
        (wpc[w] = "finished" /\ FetchedWellFormed(w) /\ DerivationKeysPresent(w))
            => ReportedUp(w)

\* keys were missing from the stats and from the settings and the server
\* was reported up
AbsentOtherKeyNeverFailsWitness ==
    \E w \in Workers :
        /\ wpc[w] = "finished"
        /\ FetchedWellFormed(w)
        /\ DerivationKeysPresent(w)
        /\ \E f, g \in faults[w] :
              f.raw = Absent /\ g.raw = Absent /\ f.part = "Stats" /\ g.part = "Settings"
        /\ ReportedUp(w)

\* the binder calls of the rows cs, as descriptor, key and label values
Probed(cs, pre, srv) ==
    {[desc |-> cs[k][2], key |-> cs[k][4], labelValues |-> pre \o cs[k][5] \o <<srv>>] :
        k \in DOMAIN cs}

\* the binder calls worker w has made, as descriptor, key and label values
Made(w) ==
    {[desc |-> c.desc, key |-> c.key, labelValues |-> c.labelValues] : c \in calls[w]}

\* the binder calls of the firstError groups parseStats runs on the record t
StatsGroups(t, srv) ==
    UNION {Probed(commandCalls(CommandOps[k]), <<>>, srv) : k \in DOMAIN CommandOps}
    \cup Probed(uptimeCalls, <<>>, srv)
    \cup (IF "extstore_limit_maxbytes" \in DOMAIN t.Stats
          THEN Probed(extstoreCalls, <<>>, srv) ELSE {})
    \cup Probed(rusageCalls, <<>>, srv)
    \cup UNION {Probed(itemsCalls, <<Itoa(n)>>, srv) : n \in DOMAIN t.Items}
    \cup UNION {Probed(slabChunksCalls, <<Itoa(n)>>, srv) : n \in DOMAIN t.Slabs}

\* the binder calls of the firstError group parseStatsSettings runs on settings
SettingsGroups(settings, srv) ==
    IF "lru_crawler" \in DOMAIN settings /\ settings["lru_crawler"] = <<"y", "e", "s">>
    THEN Probed(lruCrawlerCalls, <<>>, srv) ELSE {}

\* what the parser f makes of the raw value
Parsed(f, raw) == CallParser(f, [key \in {"k"} |-> raw], "k")

\* the metrics worker w has sent
SentMetrics(w) == {it.metric : it \in SentBy(w)}

\* sent being the metrics a worker has sent: the binder call c sent the
\* value r.v of its field if the field is well-formed, and sent nothing for
\* its descriptor, value type and label values and returned an error if the
\* field is malformed
FieldOutcome(c, r, sent) ==
    IF r.err = nil
    THEN NewConstMetric(c.desc, c.valueType, r.v, c.labelValues) \in sent
    ELSE /\ c.err # nil
         /\ \A m \in sent :
               ~(/\ m.desc = c.desc
                 /\ m.valueType = c.valueType
                 /\ m.labelValues = c.labelValues)

\* made being the binder calls worker w has made: they include every binding
\* of every firstError group of the two passes
AllGroupsEvaluated(w, made) ==
    /\ Translated(w) => StatsGroups(stats[w][1], addresses[w]) \subseteq made
    /\ SettingsTranslated(w) =>
           SettingsGroups(statsSettings[w][1], addresses[w]) \subseteq made

\* the parsers and raw values of the binder calls of worker w whose key was
\* in the record
PresentFields(w) == {<<c.f, c.raw>> : c \in {d \in calls[w] : d.present}}

\* C10: every binding of every firstError group is evaluated, whichever of
\* them failed; a field that is present and malformed yields no observation,
\* and every probed field that is present and well-formed yields its
\* observation, however many other fields are malformed and wherever they
\* stand in the binding order.
FieldFailuresDoNotAbortSiblings ==
    \A w \in Workers :
        /\ \E made \in {Made(w)} : AllGroupsEvaluated(w, made)
        /\ \E sent \in {SentMetrics(w)} :
              \E parsed \in {[fr \in PresentFields(w) |-> Parsed(fr[1], fr[2])]} :
                  \A c \in calls[w] :
                      c.present => FieldOutcome(c, parsed[<<c.f, c.raw>>], sent)

\* two fields of one group were malformed, one of them the group's second
\* binding, and the fields bound after them were still observed
FieldFailuresDoNotAbortSiblingsWitness ==
    \E w \in Workers :
        /\ SettingsTranslated(w)
        /\ Fault("Settings", 0, "lru_crawler_sleep", Junk) \in faults[w]
        /\ Fault("Settings", 0, "lru_maintainer_thread", <<"7">>) \in faults[w]
        /\ Observed(w, "lruCrawlerSleep", <<addresses[w]>>) = {}
        /\ Observed(w, "lruMaintainerThread", <<addresses[w]>>) = {}
        /\ Observed(w, "lruCrawlerMaxItems", <<addresses[w]>>) # {}
        /\ Observed(w, "lruWarmMaxAgeFactor", <<addresses[w]>>) # {}
        /\ perr[w].settings = errParseFloat

\* the descriptors bound by parseStatsSettings
SettingsDescs ==
    {"maxConnections"} \cup {lruCrawlerCalls[k][2] : k \in DOMAIN lruCrawlerCalls}

AllNumeric(m, keys) == \A k \in keys : Numeric(m, k)

\* a step of parseStats of worker w failed: a binder call returned an error,
\* or a derivation did not get all of its inputs as numbers
StatsStepFailed(w) ==
    \/ \E c \in calls[w] : c.desc \notin SettingsDescs /\ c.err # nil
    \/ ~AllNumeric(stats[w][1].Stats, {"cmd_set", "cas_misses", "cas_hits", "cas_badval"})
    \/ \E n \in DOMAIN stats[w][1].Slabs :
          ~AllNumeric(stats[w][1].Slabs[n], {"cmd_set", "cas_hits", "cas_badval"})

\* a step of parseStatsSettings of worker w failed
SettingsStepFailed(w) ==
    \E c \in calls[w] : c.desc \in SettingsDescs /\ c.err # nil

ReportedDown(w) ==
    /\ \E it \in SentBy(w) : it.metric = upMetric(0, addresses[w])
    /\ ~ReportedUp(w)

\* C11: parseStats and parseStatsSettings return an error exactly when one of
\* their steps failed, whatever the later steps did, and a worker of which a
\* step failed reports its server with the value 0.
FailureAccumulates ==
    \A w \in Workers :
        /\ Translated(w) => (perr[w].stats # nil <=> StatsStepFailed(w))
        /\ SettingsTranslated(w) => (perr[w].settings # nil <=> SettingsStepFailed(w))
        /\ (wpc[w] = "finished" /\ Translated(w) /\ StatsStepFailed(w)) => ReportedDown(w)
        /\ (wpc[w] = "finished" /\ SettingsTranslated(w) /\ SettingsStepFailed(w))
               => ReportedDown(w)

\* get_hits, bound by the first group of parseStats, was malformed; the last
\* group succeeded and sent its last field; the error was kept
FailureAccumulatesWitness ==
    \E w \in Workers :
        /\ wpc[w] = "finished"
        /\ faults[w] = {Fault("Stats", 0, "get_hits", Junk)}
        /\ Observed(w, "acceptingConnections", <<addresses[w]>>) # {}
        /\ perr[w].stats = errParseFloat
        /\ ReportedDown(w)

\* the descriptors of the extstore group
ExtstoreDescs == {extstoreCalls[k][2] : k \in DOMAIN extstoreCalls}

\* the deviations that touch extstore keys only
ExtstoreFaults == {f \in ParseFaults : f.part = "Stats" /\ f.key \in ExtstoreKeys}

\* C12: after parseStats on a record without extstore_limit_maxbytes no
\* extstore binding was made, no extstore observation was sent and the
\* extstore keys of the record caused no failure, whatever their values; with
\* the key, every extstore binding was made.
ExtstoreOnlyWithLimit ==
    \A w \in Workers :
        Translated(w) =>
            IF "extstore_limit_maxbytes" \in DOMAIN stats[w][1].Stats
            THEN Probed(extstoreCalls, <<>>, addresses[w]) \subseteq Made(w)
            ELSE /\ \A c \in calls[w] : c.desc \notin ExtstoreDescs
                 /\ \A it \in SentBy(w) : it.metric.desc \notin ExtstoreDescs
                 /\ faults[w] \subseteq ExtstoreFaults => perr[w].stats = nil

\* extstore_limit_maxbytes was missing, extstore_compact_lost was there and
\* malformed, and parseStats returned nil
ExtstoreOnlyWithLimitWitness ==
    \E w \in Workers :
        /\ Translated(w)
        /\ "extstore_limit_maxbytes" \notin DOMAIN stats[w][1].Stats
        /\ MapGet(stats[w][1].Stats, "extstore_compact_lost") = Junk
        /\ MapGet(stats[w][1].Stats, "extstore_pages_free") = <<"4">>
        /\ perr[w].stats = nil

\* what worker w has sent with the descriptor desc
ObservedDesc(w, desc) == {it \in SentBy(w) : it.metric.desc = desc}

\* C13: after parseStats the version observation has been sent exactly when
\* the stats record has the key version; when sent its value is 1 and its
\* version label is the value of the key.
VersionOnlyIfPresent ==
    \A w \in Workers :
        Translated(w) =>
            IF "version" \in DOMAIN stats[w][1].Stats
            THEN OnlyValue(Observed(w, "version",
                                    <<Str(stats[w][1].Stats["version"]), addresses[w]>>),
                           1 * Micro)
            ELSE ObservedDesc(w, "version") = {}

\* the descriptors of the crawler group
CrawlerDescs == {lruCrawlerCalls[k][2] : k \in DOMAIN lruCrawlerCalls}

\* C14: parseStatsSettings binds maxconns for every settings record; it
\* binds the crawler group exactly when lru_crawler is present with the
\* value "yes"; otherwise no crawler binding is made, no crawler gauge is
\* sent, and only a malformed maxconns can make the pass fail.
CrawlerOnlyIfYes ==
    \A w \in Workers :
        SettingsTranslated(w) =>
            /\ \E c \in calls[w] : c.desc = "maxConnections" /\ c.key = "maxconns"
            /\ IF /\ "lru_crawler" \in DOMAIN statsSettings[w][1]
                  /\ Str(statsSettings[w][1]["lru_crawler"]) = "yes"
               THEN Probed(lruCrawlerCalls, <<>>, addresses[w]) \subseteq Made(w)
               ELSE /\ \A c \in calls[w] : c.desc \notin CrawlerDescs
                    /\ \A it \in SentBy(w) : it.metric.desc \notin CrawlerDescs
                    /\ perr[w].settings # nil =>
                           /\ "maxconns" \in DOMAIN statsSettings[w][1]
                           /\ ~Numeric(statsSettings[w][1], "maxconns")

\* lru_crawler was "no", lru_crawler_sleep was malformed, maxconns was bound
\* and the pass returned nil
CrawlerOnlyIfYesWitness ==
    \E w \in Workers :
        /\ SettingsTranslated(w)
        /\ Str(MapGet(statsSettings[w][1], "lru_crawler")) = "no"
        /\ MapGet(statsSettings[w][1], "lru_crawler_sleep") = Junk
        /\ Observed(w, "maxConnections", <<addresses[w]>>) # {}
        /\ perr[w].settings = nil

\* what worker w has sent labelled with the slab class n
SlabSent(w, n) ==
    {it \in SentBy(w) : it.metric.labelValues = <<Itoa(n), addresses[w]>>}

\* sent being what a worker has sent labelled with a slab class and m the
\* items record of that class: every optional field of metrics (key,
\* descriptor) is observed with its value when m has the key with a number,
\* and not observed otherwise
OptionalFieldsOf(sent, m, metrics, valueType) ==
    \A j \in DOMAIN metrics :
        \E out \in {{it \in sent : /\ it.metric.desc = metrics[j][2]
                                   /\ it.metric.valueType = valueType}} :
            IF Numeric(m, metrics[j][1])
            THEN OnlyValue(out, Num(m, metrics[j][1]))
            ELSE out = {}

\* C15: after parseStats, for every slab class of the items and every
\* optional item field, the field's observation labelled with that slab has
\* been sent exactly when the slab's own record has the key with a number.
OptionalFieldsByOwnRecord ==
    \A w \in Workers :
        Translated(w) =>
            \A n \in DOMAIN stats[w][1].Items :
                \E sent \in {SlabSent(w, n)} :
                    \E m \in {stats[w][1].Items[n]} :
                        /\ OptionalFieldsOf(sent, m, itemsCounterMetrics, CounterValue)
                        /\ OptionalFieldsOf(sent, m, itemsGaugeMetrics, GaugeValue)

\* slab classes 1 and 4, evicted "5" in class 1 only: one evicted
\* observation, labelled "1"
OptionalFieldsByOwnRecordWitness ==
    \E w \in Workers :
        /\ Translated(w)
        /\ DOMAIN stats[w][1].Items = {1, 4}
        /\ MapGet(stats[w][1].Items[1], "evicted") = <<"5">>
        /\ "evicted" \notin DOMAIN stats[w][1].Items[4]
        /\ \E it \in ObservedDesc(w, "itemsEvicted") :
              /\ ObservedDesc(w, "itemsEvicted") = {it}
              /\ it.metric = NewConstMetric("itemsEvicted", CounterValue, 5 * Micro,
                                            <<"1", addresses[w]>>)

(***************************************************************************)
(* Properties of the descriptors.                                          *)
(***************************************************************************)
\* how often x occurs in the sequence q
Occurrences(q, x) == Cardinality({k \in DOMAIN q : q[k] = x})

\* C16: one call of Describe sends every descriptor field of the Exporter
\* exactly once: none is omitted, none is sent twice, nothing else is sent.
DescribeSendsEachOnce ==
    mainpc # "registering" =>
        /\ \A k \in DOMAIN ExporterDescs : Occurrences(described, ExporterDescs[k]) = 1
        /\ \A k \in DOMAIN described : Occurrences(ExporterDescs, described[k]) = 1

\* the slab classes of the records worker w fetched, as label values
SlabLabels(w) ==
    IF stats[w] = <<>> THEN {}
    ELSE {Itoa(n) : n \in DOMAIN stats[w][1].Items \cup DOMAIN stats[w][1].Slabs}

\* the label value stands where the label name of the descriptor calls for it
LabelFits(name, value, w) ==
    CASE name = "server" -> value = addresses[w]
      [] name = "slab" -> value \in SlabLabels(w)
      [] name = "command" ->
             value \in {CommandOps[k] : k \in DOMAIN CommandOps} \cup {"set", "flush"}
      [] name = "status" -> value \in {"hit", "miss", "badval"}
      [] name = "lru" -> value \in {"hot", "warm", "cold", "temporary"}
      [] name = "version" ->
             stats[w] # <<>> /\ value = Str(MapGet(stats[w][1].Stats, "version"))

\* the label values fit the label names, one for one and in order
LabelsFit(names, values, w) ==
    /\ Len(values) = Len(names)
    /\ \A k \in DOMAIN names : k \in DOMAIN values /\ LabelFits(names[k], values[k], w)

\* C17: every observation on the channel carries as many label values as its
\* descriptor declares label names, each value standing at the place of its
\* name (server last; slab first; command before status; lru after slab).
LabelArity ==
    \A it \in ch :
        /\ it.metric.desc \in DOMAIN variableLabels
        /\ LabelsFit(variableLabels[it.metric.desc], it.metric.labelValues, it.by)

\* a finished worker has sent observations of every label schema
LabelArityWitness ==
    \E w \in Workers :
        /\ wpc[w] = "finished"
        /\ \A names \in {variableLabels[desc] : desc \in DOMAIN variableLabels} :
              \E it \in SentBy(w) : variableLabels[it.metric.desc] = names

(***************************************************************************)
(* Properties of the attribution of observations.                          *)
(***************************************************************************)
\* the slab classes of the replies, written in decimal
SlabClassLabel == (1 :> "1") @@ (3 :> "3") @@ (4 :> "4") @@ (12 :> "12")

\* the observation metric, whose first label is the slab, is of a slab class
\* of the record t, labelled with that class in decimal; the number of items
\* and the failed cas count have the value of that class's own record
OfOwnSlab(metric, t) ==
    \E n \in DOMAIN t.Items \cup DOMAIN t.Slabs :
        /\ metric.labelValues[1] = SlabClassLabel[n]
        /\ metric.desc = "itemsNumber" =>
              /\ n \in DOMAIN t.Items
              /\ Numeric(t.Items[n], "number")
              /\ metric.value = Num(t.Items[n], "number")
        /\ (metric.desc = "slabsCommands"
                /\ SubSeq(metric.labelValues, 2, 3) = <<"cas", "badval">>) =>
              /\ n \in DOMAIN t.Slabs
              /\ Numeric(t.Slabs[n], "cas_badval")
              /\ metric.value = Num(t.Slabs[n], "cas_badval")

\* C18: in every interleaving of the workers of a cycle, every observation a
\* worker has sent carries as its server label the address the worker was
\* started for, the derived set count labelled with an address is there
\* only if the records of that address's worker give it, and an observation
\* with a slab label carries the decimal string of a slab class of its own
\* worker's record and the value of that class.
ServerAttribution ==
    \A it \in ch :
        /\ server[it.by] = addresses[it.by]
        /\ it.metric.labelValues[Len(it.metric.labelValues)] = server[it.by]
        /\ it.metric.desc # "up" => stats[it.by] # <<>> \/ statsSettings[it.by] # <<>>
        /\ (it.metric.desc = "commands"
                /\ SubSeq(it.metric.labelValues, 1, 2) = <<"set", "hit">>) =>
              /\ stats[it.by] # <<>>
              /\ Numeric(stats[it.by][1].Stats, "cmd_set")
        /\ variableLabels[it.metric.desc][1] = "slab" =>
              /\ stats[it.by] # <<>>
              /\ OfOwnSlab(it.metric, stats[it.by][1])

\* two workers whose servers replied differently have both translated their
\* records while Collect was waiting: each sent the item counts of the slab
\* classes 3 and 12 under its own address, and only one of them the derived
\* set count
ServerAttributionWitness ==
    \E v, w \in Workers :
        /\ mainpc = "wait"
        /\ Translated(v) /\ Translated(w)
        /\ faults[v] # {} /\ faults[w] = {}
        /\ \A u \in {v, w} :
              /\ OnlyValue(Observed(u, "itemsNumber", <<"3", addresses[u]>>), 2 * Micro)
              /\ OnlyValue(Observed(u, "itemsNumber", <<"12", addresses[u]>>), 6 * Micro)
        /\ Observed(v, "commands", <<"set", "hit", addresses[v]>>) = {}
        /\ Observed(w, "commands", <<"set", "hit", addresses[w]>>) # {}

(***************************************************************************)
(* Properties of the scalar parsers.                                       *)
(***************************************************************************)
\* the places of the dots of raw
Dots(raw) == {k \in 1..Len(raw) : raw[k] = "."}

\* raw is "S.F" with S and F unsigned decimal integers
IsDuration(raw) ==
    /\ Cardinality(Dots(raw)) = 1
    /\ \A k \in Dots(raw) :
          /\ 1 < k /\ k < Len(raw)
          /\ \A j \in (1..Len(raw)) \ {k} : raw[j] \in DOMAIN DigitVal

\* S + F/1,000,000 for raw = "S.F"
Duration(raw) ==
    LET k == CHOOSE k \in Dots(raw) : TRUE
    IN  DecVal(SubSeq(raw, 1, k - 1)) * Micro + DecVal(SubSeq(raw, k + 1, Len(raw)))

\* C19: for rusage_user present in the stats record, parseTimeval gives
\* S + F/1,000,000 when the value is "S.F" with integers S and F, and the
\* observation has that value; for every other value (no dot, more than one
\* dot, an empty or non-numeric part) it fails, no observation is sent for
\* the field and parseStats returns the error.
TimevalSplits ==
    \A w \in Workers :
        (Translated(w) /\ "rusage_user" \in DOMAIN stats[w][1].Stats) =>
            \E raw \in {stats[w][1].Stats["rusage_user"]} :
            \E out \in {Observed(w, "rusageUser", <<addresses[w]>>)} :
                IF IsDuration(raw)
                THEN /\ parseTimeval(stats[w][1].Stats, "rusage_user")
                            = [v |-> Duration(raw), err |-> nil]
                     /\ OnlyValue(out, Duration(raw))
                     /\ perr[w].stats = nil
                ELSE /\ parseTimeval(stats[w][1].Stats, "rusage_user").err
                            = errParseTimeval
                     /\ out = {}
                     /\ perr[w].stats = errParseTimeval

\* rusage_user "0.25" was observed as 0.000025
TimevalSplitsWitness ==
    \E w \in Workers :
        /\ Translated(w)
        /\ MapGet(stats[w][1].Stats, "rusage_user") = <<"0", ".", "2", "5">>
        /\ OnlyValue(Observed(w, "rusageUser", <<addresses[w]>>), 25)

\* C20: for lru_maintainer_thread in the settings record, parseBool gives 1
\* for "yes" and 0 for "no", and the observation has that value; for every
\* other value it fails with the malformed-boolean error, no observation is
\* sent and parseStatsSettings returns the error; for the key absent it
\* gives errKeyNotFound, which is not the malformed-boolean error, nothing is
\* sent and nothing fails.
BoolLiterals ==
    \A w \in Workers :
        (SettingsTranslated(w) /\ MapGet(statsSettings[w][1], "lru_crawler") = <<"y", "e", "s">>) =>
            \E m \in {statsSettings[w][1]} :
            \E out \in {Observed(w, "lruMaintainerThread", <<addresses[w]>>)} :
                CASE "lru_maintainer_thread" \notin DOMAIN m ->
                         /\ parseBool(m, "lru_maintainer_thread").err = errKeyNotFound
                         /\ errKeyNotFound # errParseBool
                         /\ out = {}
                         /\ perr[w].settings = nil
                  [] MapGet(m, "lru_maintainer_thread") = <<"y", "e", "s">> ->
                         /\ parseBool(m, "lru_maintainer_thread")
                                = [v |-> 1 * Micro, err |-> nil]
                         /\ OnlyValue(out, 1 * Micro)
                         /\ perr[w].settings = nil
                  [] MapGet(m, "lru_maintainer_thread") = <<"n", "o">> ->
                         /\ parseBool(m, "lru_maintainer_thread") = [v |-> 0, err |-> nil]
                         /\ OnlyValue(out, 0)
                         /\ perr[w].settings = nil
                  [] OTHER ->
                         /\ parseBool(m, "lru_maintainer_thread").err = errParseBool
                         /\ out = {}
                         /\ perr[w].settings = errParseBool

\* lru_maintainer_thread "Yes" was refused and the server reported down
BoolLiteralsWitness ==
    \E w \in Workers :
        /\ wpc[w] = "finished"
        /\ SettingsTranslated(w)
        /\ MapGet(statsSettings[w][1], "lru_crawler") = <<"y", "e", "s">>
        /\ MapGet(statsSettings[w][1], "lru_maintainer_thread") = <<"Y", "e", "s">>
        /\ Observed(w, "lruMaintainerThread", <<addresses[w]>>) = {}
        /\ perr[w].settings = errParseBool
        /\ \E it \in SentBy(w) : it.metric = upMetric(0, addresses[w])

(***************************************************************************)
(* Properties of the order of a worker's steps.                            *)
(***************************************************************************)
\* worker w has started or finished a fetch
FetchStarted(w) ==
    \/ wpc[w] \in {"StatsSettings", "parseStats", "parseStatsSettings", "up"}
    \/ conn[w].stats # "none"
    \/ conn[w].settings # "none"

\* worker w has started a translation pass: it is past parseStats, or has
\* made a binder call, or has sent something else than reachability
TranslationStarted(w) ==
    \/ wpc[w] \in {"parseStatsSettings", "up"}
    \/ perr[w] # NoErrors
    \/ calls[w] # {}
    \/ \E it \in SentBy(w) : it.metric.desc # "up"

\* C21: in every worker of a cycle the client is constructed before a fetch
\* starts, both fetches have returned (with a record or an error) before a
\* translation pass starts, and the reachability observation is sent after
\* everything else the worker sends: nothing of the worker is on the channel
\* with the same or a later place in its sending order.
PipelineOrder ==
    \A w \in Workers :
        /\ FetchStarted(w) => conn[w].new = "ok"
        /\ conn[w].settings # "none" => conn[w].stats # "none"
        /\ TranslationStarted(w) =>
              /\ conn[w].stats # "none"
              /\ conn[w].settings # "none"
        /\ \A last \in SentBy(w) :
              last.metric.desc = "up" =>
                  /\ wpc[w] \in {"Done", "finished"}
                  /\ last.seq = nsent[w]
                  /\ \A it \in SentBy(w) : it # last => it.seq < last.seq

\* a worker went through connect, both fetches and both passes and sent its
\* reachability observation third, after the observations of the two passes,
\* while another worker had not yet fetched
PipelineOrderWitness ==
    \E v, w \in Workers :
        /\ wpc[v] \in {"New", "Stats"}
        /\ wpc[w] = "Done"
        /\ conn[w] = [new |-> "ok", stats |-> "ok", settings |-> "ok"]
        /\ \E a, b, c \in SentBy(w) :
              /\ a.metric.desc = "itemsNumber" /\ a.seq = 1
              /\ b.metric.desc = "maxConnections" /\ b.seq = 2
              /\ c.metric.desc = "up" /\ c.seq = 3

(***************************************************************************)
(* Properties of termination.                                              *)
(***************************************************************************)
\* C22: under fair scheduling every Collect that was called returns, with
\* every worker finished and the counter of the wait group at zero, whatever
\* the connects, the fetches and the translation passes of the servers did.
CollectReturns ==
    (mainpc \in {"loop", "wait"})
        ~> (mainpc = "returned" /\ wg = 0 /\ \A w \in Workers : wpc[w] = "finished")

\* Collect has returned, the counter at zero, after one worker could not
\* construct its client and the pass of another met a malformed value
CollectReturnsWitness ==
    /\ mainpc = "returned"
    /\ wg = 0
    /\ \E v, w \in Workers :
          /\ conn[v].new = "failed"
          /\ conn[w].new = "ok"
          /\ perr[w].stats # nil
          /\ wpc[v] = "finished" /\ wpc[w] = "finished"

(***************************************************************************)
(* Properties of the set of observations.                                  *)
(***************************************************************************)
\* the observations or binder calls a and b are of the same series
SameSeries(a, b) == a.desc = b.desc /\ a.labelValues = b.labelValues

\* C23, as claimed: no two observations a worker sends in a cycle have the
\* same descriptor and the same label values, whatever the records hold, and
\* no two binder calls of a worker send for the same descriptor and label
\* values.
NoDuplicateObservations ==
    \A w \in Workers :
        /\ \A a, b \in SentBy(w) :
              SameSeries(a.metric, b.metric) => a.metric = b.metric
        /\ \A c, d \in {x \in calls[w] : x.sent} : SameSeries(c, d) => c = d

====
